---- MODULE Spec2Model ----
\* Model of the PTT crawler's crawl orchestration (src/src/services/crawl_service.py)
\* over the crawl_states row of one board (src/src/database/crawl_state_repository.py),
\* the articles table (src/src/database/article_repository.py) and the cache / JSON
\* snapshots written at finalization (src/src/services/state_service.py).
\*
\* Every await of the coroutines is one step: between two awaits asyncio runs a
\* coroutine without interleaving, so the code between them is part of the step.
EXTENDS Integers, Sequences, FiniteSets, TLC

\* ---------------------------------------------------------------- bounds
URLs == {"u1", "u2"}
MaxPages == 2
MaxPageLinks == 1
MaxRuns == 2
MaxCount == 2
MaxRetryLimit == 3
MaxBatch == 3
MaxTrail == 3
MaxScrapeRetries == 2
MaxListLen == 4
MaxTitle == 5
MaxCallers == 6
MaxTicks == 2
MaxConcurrentLimit == 6

\* ---------------------------------------------------------------- program constants
Calls == {1, 2}
concurrent_limit == 3
DefaultMaxRetries == 3
DefaultLastPage == 1

IDLE == "idle"
CRAWLING == "crawling"
PAUSED == "paused"
ERROR == "error"
COMPLETED == "completed"
CrawlStatus == {IDLE, CRAWLING, PAUSED, ERROR, COMPLETED}

NULL == "null"
\* an optional argument left at None, or <<v>> when given
None == <<>>
NoRow == [exists |-> FALSE]

\* mutant: a timeout stops the crawl as well
FatalCodes_WithTimeout == {"UNAUTHORIZED", "QUOTA_EXCEEDED", "TIMEOUT"}

FatalCodes == {"UNAUTHORIZED", "QUOTA_EXCEEDED"}
ErrorCodes == FatalCodes \cup {"TIMEOUT", "API_ERROR"}

\* ---------------------------------------------------------------- helpers
SeqsUpTo(S, n) == UNION {[1..k -> S] : k \in 0..n}

Listings == [1..MaxPages -> SeqsUpTo(URLs, MaxPageLinks)]

InSeq(x, s) == \E i \in 1..Len(s) : s[i] = x

RECURSIVE FilterSeq(_, _)
FilterSeq(s, keep) ==
    IF s = <<>> THEN <<>>
    ELSE IF Head(s) \in keep THEN <<Head(s)>> \o FilterSeq(Tail(s), keep)
         ELSE FilterSeq(Tail(s), keep)

Range(s) == {s[i] : i \in 1..Len(s)}

\* ---------------------------------------------------------------- exceptions
ValueErrorExc(msg) == [type |-> "ValueError", code |-> NULL, message |-> msg]
FirecrawlError(code) == [type |-> "FirecrawlError", code |-> code, message |-> "api error"]
PostgresError == [type |-> "PostgresError", code |-> NULL, message |-> "database error"]
NoExc == [type |-> NULL, code |-> NULL, message |-> NULL]

NoMessage == <<NULL>>

\* str(e): FirecrawlError.__str__ prefixes the code, other exceptions give the message
Str(e) == IF e.type = "FirecrawlError" THEN <<e.code, e.message>> ELSE <<e.message>>

\* ---------------------------------------------------------------- crawl_states row
DefaultRow ==
    [exists |-> TRUE, status |-> IDLE, last_crawl_time |-> NULL,
     last_page_crawled |-> DefaultLastPage, processed_urls |-> <<>>, failed_urls |-> <<>>,
     retry_count |-> 0, max_retries |-> DefaultMaxRetries, error_message |-> NoMessage]

init_crawl_state(r) == IF r.exists THEN r ELSE DefaultRow

update_crawl_state(r, status, last_page, error_message) ==
    LET base == init_crawl_state(r)
    IN [base EXCEPT !.status = status,
                    !.last_crawl_time = IF status = COMPLETED THEN "set" ELSE @,
                    !.last_page_crawled = IF last_page = None THEN @ ELSE last_page[1],
                    !.error_message = error_message]

add_processed_url(r, url) ==
    IF r.exists THEN [r EXCEPT !.processed_urls = Append(@, url)] ELSE r

\* mutant: the failed url is not written
add_failed_url_dropped(r, url) == r

add_failed_url(r, url) ==
    IF r.exists THEN [r EXCEPT !.failed_urls = Append(@, url)] ELSE r

\* mutant: the UPDATE without its retry_count < max_retries condition
increment_retry_count_unbounded(r) ==
    IF r.exists THEN [r EXCEPT !.retry_count = @ + 1] ELSE r

increment_retry_count(r) ==
    IF r.exists /\ r.retry_count < r.max_retries
    THEN [r EXCEPT !.retry_count = @ + 1] ELSE r

reset_retry_count(r) ==
    IF r.exists THEN [r EXCEPT !.retry_count = 0] ELSE r

is_url_processed(state, url) == InSeq(url, state.processed_urls)

\* ---------------------------------------------------------------- articles table
\* rows of the articles table per url; the column is declared UNIQUE
NoArticles == [u \in URLs |-> 0]
Stored(a) == {u \in URLs : a[u] > 0}

\* ---------------------------------------------------------------- crawl service helpers
\* mutant: the filter lets every link through
_filter_keep_all(links, state) == links

_filter_processed_links(links, state) ==
    FilterSeq(links, {u \in URLs : ~is_url_processed(state, u)})

ZeroCounts == [created |-> 0, updated |-> 0, skipped |-> 0, failed |-> 0]

\* mutant: a partial success is stored as error
FinalStatus_AnyFailureIsError(p2) == IF p2.failed = 0 THEN COMPLETED ELSE ERROR

FinalStatus(p2) ==
    IF p2.failed = 0 THEN COMPLETED
    ELSE IF p2.created + p2.updated > 0 THEN COMPLETED
    ELSE ERROR

\* state_data of sync_state_to_redis: the fields of the CrawlState
StateSnapshot(r) ==
    IF r.exists THEN [board |-> "Stock", status |-> r.status, error_message |-> r.error_message,
                      retry_count |-> r.retry_count, max_retries |-> r.max_retries,
                      processed_urls |-> r.processed_urls,
                      failed_urls |-> r.failed_urls, last_page_crawled |-> r.last_page_crawled,
                      last_crawl_time |-> r.last_crawl_time]
    ELSE [board |-> NULL]

NoSnapshot == [board |-> NULL]

\* state_data of save_state_to_json: the same fields and saved_at
JsonSnapshot(r) ==
    [f \in DOMAIN StateSnapshot(r) \cup {"saved_at"} |->
        IF f = "saved_at" THEN "set" ELSE StateSnapshot(r)[f]]

\* mutant: the call answers true without writing the entry
sync_state_to_redis_unwritten(available, client, cache, s, ok) ==
    IF ~available \/ ~client THEN [available |-> available, cache |-> cache, value |-> FALSE]
    ELSE IF ok THEN [available |-> available, cache |-> cache, value |-> TRUE]
    ELSE [available |-> FALSE, cache |-> cache, value |-> FALSE]

\* sync_state_to_redis(crawl_state): skipped when the cache is flagged unavailable
\* or there is no client; a failing setex clears the flag
sync_state_to_redis(available, client, cache, s, ok) ==
    IF ~available \/ ~client THEN [available |-> available, cache |-> cache, value |-> FALSE]
    ELSE IF ok THEN [available |-> available, cache |-> StateSnapshot(s), value |-> TRUE]
    ELSE [available |-> FALSE, cache |-> cache, value |-> FALSE]

\* save_state_to_json(crawl_state): a failure to open the file is logged
save_state_to_json(file, s, ok) ==
    IF ok THEN [file |-> JsonSnapshot(s), value |-> TRUE]
    ELSE [file |-> file, value |-> FALSE]

\* ---------------------------------------------------------------- state
VARIABLES
    row,              \* the crawl_states row of the board
    articles,         \* urls stored in the articles table
    listing,          \* what the forum's listing pages hold
    workload,         \* the arguments the callers pass to crawl_board, and whether
                      \* writes to the cache and to the JSON file can fail
    redis_available,  \* StateService._redis_available
    redis_state,      \* cache entry crawl_state:<board>
    json_state,       \* JSON snapshot file of the board
    runs,             \* crawl_board calls each caller may still start
    call,             \* the locals of each caller's crawl_board coroutine
    prev,             \* the previous finished call of each caller
    redis_client,     \* StateService.redis_client is set (TRUE) or None (FALSE)
    redis_keys,       \* the keys the cache holds besides crawl_state:<board>
    input,            \* the object or arguments a model method or script is run on
    crawl_state,      \* a CrawlState object of src/src/models/crawl_state.py
    firecrawl,        \* one scrape_article_with_retry call on the FirecrawlService
    config,           \* the sources of the configuration and the configs table
    ret               \* what the last call of a repository or service operation gave

crawlVars == <<row, articles, listing, workload, runs, call, prev>>
stateVars == <<redis_available, redis_state, json_state>>
\* the variables crawl_board does not write
aux == <<redis_client, redis_keys, input, crawl_state, firecrawl, config, ret>>

vars == <<crawlVars, stateVars, aux>>

NoRun == [outcome |-> NULL]

IdleCall ==
    [op |-> "crawl_board", pc |-> "idle", pages |-> 1, incremental |-> TRUE, force |-> FALSE,
     crawl_state |-> NoRow, page_num |-> 0, all_links |-> <<>>, pages_processed |-> 0,
     counts |-> ZeroCounts, tasks |-> <<>>, exc |-> NoExc, result |-> NoRun,
     discovered |-> <<>>, page_scrapes |-> 0, last_page_outcome |-> NULL,
     article_scrapes |-> [u \in URLs |-> 0], start_row |-> NoRow,
     final_state |-> NoRow, retry_at_catch |-> 0,
     synced |-> [redis |-> FALSE, json |-> FALSE]]

\* rows a killed crawl leaves behind: status crawling, after r failed calls
InterruptedRows ==
    {[DefaultRow EXCEPT !.status = CRAWLING, !.retry_count = r] : r \in {0, DefaultMaxRetries}}

\* no repository or service operation has been called directly
NoRet == [op |-> NULL]

\* the objects and services crawl_board does not use are left alone
AuxIdle ==
    /\ crawl_state = NoRow
    /\ firecrawl = NULL
    /\ config = NULL
    /\ ret = NoRet

InitCommon ==
    /\ redis_available = TRUE
    /\ redis_client = TRUE
    /\ redis_keys = {}
    /\ input = NULL
    /\ redis_state = NoSnapshot
    /\ json_state = NoSnapshot
    /\ prev = [c \in Calls |-> NoRun]

Init ==
    /\ InitCommon
    /\ AuxIdle
    /\ articles = NoArticles
    /\ listing \in Listings
    /\ workload = [pages |-> 1..MaxPages, incremental |-> BOOLEAN, force |-> BOOLEAN,
                   redis_ok |-> BOOLEAN, json_ok |-> {TRUE},
                   url_write_ok |-> {TRUE}, state_write_ok |-> {TRUE}]
    /\ row \in {NoRow} \cup InterruptedRows
    /\ runs = [c \in Calls |-> IF c = 1 THEN MaxRuns ELSE 0]
    /\ call = [c \in Calls |-> IdleCall]

\* ---------------------------------------------------------------- crawl_board
Summary(cl) ==
    [outcome |-> cl.pc, pages |-> cl.pages, incremental |-> cl.incremental,
     force |-> cl.force, result |-> cl.result, exc |-> cl.exc]

\* crawl_board(board, pages, incremental, force) is called
Start(c) ==
    /\ call[c].pc \in {"idle", "returned", "raised"}
    /\ runs[c] > 0
    /\ \E pages \in workload.pages, incremental \in workload.incremental,
          force \in workload.force :
         call' = [call EXCEPT ![c] =
                    [IdleCall EXCEPT !.pc = "init", !.pages = pages,
                                     !.incremental = incremental, !.force = force,
                                     !.start_row = row]]
    /\ prev' = [prev EXCEPT ![c] = IF call[c].pc = "idle" THEN @ ELSE Summary(call[c])]
    /\ runs' = [runs EXCEPT ![c] = @ - 1]
    /\ UNCHANGED <<aux, row, articles, listing, workload, redis_available, redis_state, json_state>>

\* an exception leaves the body of the call: crawl_board catches it in its
\* except Exception block, retry_failed_urls has no handler
Raise(cl, e) ==
    [cl EXCEPT !.exc = e, !.pc = IF cl.op = "crawl_board" THEN "exc_update" ELSE "raised"]

\* _initialize_crawl_state: existing_state = get_crawl_state(board)
InitGet(c) ==
    /\ call[c].pc = "init"
    /\ call' = [call EXCEPT ![c].pc =
                  IF ~row.exists THEN "init_create"
                  ELSE IF call[c].force THEN "init_force_update"
                  ELSE "get_state"]
    /\ UNCHANGED <<aux, row, articles, listing, workload, redis_available, redis_state, json_state, runs, prev>>

\* _initialize_crawl_state: first crawl of the board, init_crawl_state(board)
InitCreate(c) ==
    /\ call[c].pc = "init_create"
    /\ row' = init_crawl_state(row)
    /\ call' = [call EXCEPT ![c].pc = "get_state"]
    /\ UNCHANGED <<aux, articles, listing, workload, redis_available, redis_state, json_state, runs, prev>>

\* _initialize_crawl_state with force: update_crawl_state(board, IDLE, error_message=None)
InitForceUpdate(c) ==
    /\ call[c].pc = "init_force_update"
    /\ \E ok \in workload.state_write_ok :
         IF ok
         THEN /\ row' = update_crawl_state(row, IDLE, None, NoMessage)
              /\ call' = [call EXCEPT ![c].pc = "init_force_reset"]
         ELSE /\ row' = row
              /\ call' = [call EXCEPT ![c] = Raise(@, PostgresError)]
    /\ UNCHANGED <<aux, articles, listing, workload, redis_available, redis_state, json_state, runs, prev>>

\* _initialize_crawl_state with force: reset_retry_count(board)
InitForceReset(c) ==
    /\ call[c].pc = "init_force_reset"
    /\ row' = reset_retry_count(row)
    /\ call' = [call EXCEPT ![c].pc = "get_state"]
    /\ UNCHANGED <<aux, articles, listing, workload, redis_available, redis_state, json_state, runs, prev>>

AlreadyCrawling == ValueErrorExc("already crawling")
CannotInitialize == ValueErrorExc("cannot initialize crawl state")

\* mutant: the guard is left out
GetState_NoGuard(c) ==
    /\ call[c].pc = "get_state"
    /\ call' = [call EXCEPT ![c] =
                  IF ~row.exists
                  THEN [@ EXCEPT !.crawl_state = row, !.exc = CannotInitialize, !.pc = "exc_update"]
                  ELSE [@ EXCEPT !.crawl_state = row, !.pc = "set_crawling"]]
    /\ UNCHANGED <<aux, row, articles, listing, workload, redis_available, redis_state, json_state, runs, prev>>

\* crawl_board steps 2 and 3: read the state, then the "already crawling" guard
GetState(c) ==
    /\ call[c].pc = "get_state"
    /\ call' = [call EXCEPT ![c] =
                  IF ~row.exists
                  THEN [@ EXCEPT !.crawl_state = row, !.exc = CannotInitialize, !.pc = "exc_update"]
                  ELSE IF ~call[c].force /\ row.status = CRAWLING
                  THEN [@ EXCEPT !.crawl_state = row, !.exc = AlreadyCrawling, !.pc = "exc_update"]
                  ELSE [@ EXCEPT !.crawl_state = row, !.pc = "set_crawling"]]
    /\ UNCHANGED <<aux, row, articles, listing, workload, redis_available, redis_state, json_state, runs, prev>>

\* mutant: the crawl goes on without marking the board crawling
SetCrawling_Skipped(c) ==
    /\ call[c].pc = "set_crawling"
    /\ call' = [call EXCEPT ![c].pc = "p1_scrape", ![c].page_num = 1]
    /\ UNCHANGED <<aux, row, articles, listing, workload, redis_available, redis_state, json_state, runs, prev>>

\* crawl_board step 4: update_crawl_state(board, CRAWLING, error_message=None)
SetCrawling(c) ==
    /\ call[c].pc = "set_crawling"
    /\ \E ok \in workload.state_write_ok :
         IF ok
         THEN /\ row' = update_crawl_state(row, CRAWLING, None, NoMessage)
              /\ call' = [call EXCEPT ![c].pc = "p1_scrape", ![c].page_num = 1]
         ELSE /\ row' = row
              /\ call' = [call EXCEPT ![c] = Raise(@, PostgresError)]
    /\ UNCHANGED <<aux, articles, listing, workload, redis_available, redis_state, json_state, runs, prev>>

\* ---------------------------------------------------------------- phase 1
NewTasks(links) ==
    [i \in 1..Len(links) |-> [pc |-> "wait", url |-> links[i], outcome |-> NULL]]

\* the for loop moves to the next page, or phase 1 returns and phase 2 creates its tasks
AfterPage(cl) ==
    IF cl.page_num < cl.pages
    THEN [cl EXCEPT !.page_num = @ + 1, !.pc = "p1_scrape"]
    ELSE [cl EXCEPT !.tasks = NewTasks(cl.all_links),
                    !.pc = IF cl.all_links = <<>> THEN "fin_update" ELSE "p2"]

PageOutcomes == {"ok", "unsuccessful", "exception"} \cup ErrorCodes

\* mutant: every FirecrawlError of a page is swallowed
Phase1Page_SwallowAll(cl, outcome, links) ==
    LET logged == [cl EXCEPT !.page_scrapes = @ + 1, !.last_page_outcome = outcome]
        page_links == IF cl.incremental
                      THEN _filter_processed_links(links, cl.crawl_state)
                      ELSE links
    IN IF outcome = "ok"
       THEN [logged EXCEPT !.all_links = @ \o page_links,
                           !.discovered = @ \o links,
                           !.pages_processed = @ + 1,
                           !.pc = "p1_progress"]
       ELSE AfterPage(logged)

\* _phase1_crawl_board_pages: one iteration up to the scrape's result
Phase1Page(cl, outcome, links) ==
    LET logged == [cl EXCEPT !.page_scrapes = @ + 1, !.last_page_outcome = outcome]
        page_links == IF cl.incremental
                      THEN _filter_processed_links(links, cl.crawl_state)
                      ELSE links
    IN IF outcome = "ok"
       THEN [logged EXCEPT !.all_links = @ \o page_links,
                           !.discovered = @ \o links,
                           !.pages_processed = @ + 1,
                           !.pc = "p1_progress"]
       ELSE IF outcome \in FatalCodes
       THEN [logged EXCEPT !.exc = FirecrawlError(outcome), !.pc = "exc_update"]
       ELSE AfterPage(logged)

P1Scrape(c) ==
    /\ call[c].pc = "p1_scrape"
    /\ \E outcome \in PageOutcomes :
         call' = [call EXCEPT ![c] = Phase1Page(@, outcome, listing[call[c].page_num])]
    /\ UNCHANGED <<aux, row, articles, listing, workload, redis_available, redis_state, json_state, runs, prev>>

\* _phase1_crawl_board_pages: update_crawl_state(board, CRAWLING, last_page_crawled=page_num);
\* when it raises, the loop's except Exception logs it and goes on to the next page
P1Progress(c) ==
    /\ call[c].pc = "p1_progress"
    /\ \E ok \in workload.state_write_ok :
         row' = IF ok THEN update_crawl_state(row, CRAWLING, <<call[c].page_num>>, NoMessage)
                ELSE row
    /\ call' = [call EXCEPT ![c] = AfterPage(@)]
    /\ UNCHANGED <<aux, articles, listing, workload, redis_available, redis_state, json_state, runs, prev>>

\* ---------------------------------------------------------------- phase 2
\* indexes of the tasks phase 2 may create
TaskIds == 1..(MaxPages * MaxPageLinks)

\* tasks holding CrawlService._semaphore, over every call of the service
Holding(cl) == {i \in 1..Len(cl.tasks) : cl.tasks[i].pc \notin {"wait", "done"}}
PermitsInUse == Cardinality({<<c, i>> \in Calls \X TaskIds :
                               i \in Holding(call[c])})

\* CrawlState has no should_update_article: the attribute lookup raises AttributeError
should_update_article(state, url) == "AttributeError"

\* articles_failed += 1, then add_failed_url is awaited
Failed(cl, i) ==
    [cl EXCEPT !.counts.failed = @ + 1, !.tasks[i].pc = "rec_failed",
               !.tasks[i].outcome = "failed"]

\* the branches of the try body that count the failure themselves:
\* articles_failed += 1, then add_failed_url is awaited, then return
FailedInBody(cl, i) ==
    [cl EXCEPT !.counts.failed = @ + 1, !.tasks[i].pc = "rec_failed_body",
               !.tasks[i].outcome = "failed"]

\* process_link: async with self._semaphore (waiters are served in task order)
TaskAcquire(c, i) ==
    /\ call[c].pc = "p2"
    /\ i \in 1..Len(call[c].tasks)
    /\ call[c].tasks[i].pc = "wait"
    /\ \A j \in 1..(i - 1) : call[c].tasks[j].pc # "wait"
    /\ PermitsInUse < concurrent_limit
    /\ call' = [call EXCEPT ![c].tasks[i].pc = "exists"]
    /\ UNCHANGED <<aux, row, articles, listing, workload, redis_available, redis_state, json_state, runs, prev>>

ScrapeOutcomes == {"ok", "unsuccessful", "raises", "parse_none", "parse_raises"}

\* process_link from article_exists(url) to the Article object: an existing article
\* reaches crawl_state.should_update_article(url), which raises into the except
\* branch; a new one is scraped (scrape_article_with_retry), parsed and built.
\* The scrape touches nothing but the task's locals, so it shares the step of the
\* existence check.
ProcessLink(cl, i, db_error, stored, outcome) ==
    LET url == cl.tasks[i].url
        scraped == [cl EXCEPT !.article_scrapes[url] = @ + 1]
    IN IF db_error THEN Failed(cl, i)
       ELSE IF url \in stored
            THEN IF should_update_article(cl.crawl_state, url) = "AttributeError"
                 THEN Failed(cl, i)
                 ELSE [cl EXCEPT !.counts.skipped = @ + 1, !.tasks[i].pc = "rec_processed",
                                 !.tasks[i].outcome = "skipped"]
            ELSE IF outcome = "ok"
                 THEN [scraped EXCEPT !.tasks[i].pc = "insert"]
                 ELSE IF outcome \in {"unsuccessful", "parse_none"}
                      THEN FailedInBody(scraped, i)
                      ELSE Failed(scraped, i)

TaskScrape(c, i) ==
    /\ call[c].pc = "p2"
    /\ i \in 1..Len(call[c].tasks)
    /\ call[c].tasks[i].pc = "exists"
    /\ \E db_error \in BOOLEAN, outcome \in ScrapeOutcomes :
         call' = [call EXCEPT ![c] = ProcessLink(@, i, db_error, Stored(articles), outcome)]
    /\ UNCHANGED <<aux, row, articles, listing, workload, redis_available, redis_state, json_state, runs, prev>>

\* insert_article: a stored url violates the unique constraint (IntegrityError)
InsertRaises(url, stored, db_error) == db_error \/ url \in stored

\* process_link: article_id = insert_article(article)
TaskInsert(c, i) ==
    /\ call[c].pc = "p2"
    /\ i \in 1..Len(call[c].tasks)
    /\ call[c].tasks[i].pc = "insert"
    /\ \E db_error \in BOOLEAN :
         LET url == call[c].tasks[i].url
         IN IF InsertRaises(url, Stored(articles), db_error)
            THEN /\ call' = [call EXCEPT ![c] = Failed(@, i)]
                 /\ UNCHANGED articles
            ELSE /\ call' = [call EXCEPT ![c].counts.created = @ + 1,
                                         ![c].tasks[i].pc = "rec_processed",
                                         ![c].tasks[i].outcome = "created"]
                 /\ articles' = [articles EXCEPT ![url] = @ + 1]
    /\ UNCHANGED <<aux, row, listing, workload, redis_available, redis_state, json_state, runs, prev>>

\* process_link: add_processed_url(board, url) after the store, asyncio.sleep, and
\* the semaphore is released; when the UPDATE raises, the except branch counts
\* the link as failed
TaskAddProcessed(c, i) ==
    /\ call[c].pc = "p2"
    /\ i \in 1..Len(call[c].tasks)
    /\ call[c].tasks[i].pc = "rec_processed"
    /\ \E ok \in workload.url_write_ok :
         IF ok
         THEN /\ row' = add_processed_url(row, call[c].tasks[i].url)
              /\ call' = [call EXCEPT ![c].tasks[i].pc = "done"]
         ELSE /\ call' = [call EXCEPT ![c] = Failed(@, i)]
              /\ UNCHANGED row
    /\ UNCHANGED <<aux, articles, listing, workload, redis_available, redis_state, json_state, runs, prev>>

\* process_link: add_failed_url(board, url), return, the semaphore is released;
\* when the UPDATE raises in the try body the except branch counts the link
\* again and calls add_failed_url again, and when it raises there the exception
\* leaves process_link and gather keeps it
TaskAddFailed(c, i) ==
    /\ call[c].pc = "p2"
    /\ i \in 1..Len(call[c].tasks)
    /\ call[c].tasks[i].pc \in {"rec_failed", "rec_failed_body"}
    /\ \E ok \in workload.url_write_ok :
         IF ok
         THEN /\ row' = add_failed_url(row, call[c].tasks[i].url)
              /\ call' = [call EXCEPT ![c].tasks[i].pc = "done"]
         ELSE /\ call' = [call EXCEPT ![c] =
                            IF @.tasks[i].pc = "rec_failed_body" THEN Failed(@, i)
                            ELSE [@ EXCEPT !.tasks[i].pc = "done"]]
              /\ UNCHANGED row
    /\ UNCHANGED <<aux, articles, listing, workload, redis_available, redis_state, json_state, runs, prev>>

\* asyncio.gather(*tasks, return_exceptions=True) returns
GatherDone(c) ==
    /\ call[c].pc = "p2"
    /\ \A i \in 1..Len(call[c].tasks) : call[c].tasks[i].pc = "done"
    /\ call' = [call EXCEPT ![c].pc = "fin_update"]
    /\ UNCHANGED <<aux, row, articles, listing, workload, redis_available, redis_state, json_state, runs, prev>>

\* ---------------------------------------------------------------- finalization
\* _finalize_crawl_state: update_crawl_state(board, final_status, error_message=None)
FinUpdate(c) ==
    /\ call[c].pc = "fin_update"
    /\ \E ok \in workload.state_write_ok :
         IF ok
         THEN /\ row' = update_crawl_state(row, FinalStatus(call[c].counts), None, NoMessage)
              /\ call' = [call EXCEPT ![c].pc =
                            IF FinalStatus(call[c].counts) = COMPLETED THEN "fin_reset"
                            ELSE "fin_get"]
         ELSE /\ row' = row
              /\ call' = [call EXCEPT ![c] = Raise(@, PostgresError)]
    /\ UNCHANGED <<aux, articles, listing, workload, redis_available, redis_state, json_state, runs, prev>>

\* _finalize_crawl_state: reset_retry_count(board) on completed
FinReset(c) ==
    /\ call[c].pc = "fin_reset"
    /\ row' = reset_retry_count(row)
    /\ call' = [call EXCEPT ![c].pc = "fin_get"]
    /\ UNCHANGED <<aux, articles, listing, workload, redis_available, redis_state, json_state, runs, prev>>

\* _finalize_crawl_state: crawl_state = get_crawl_state(board)
FinGet(c) ==
    /\ call[c].pc = "fin_get"
    /\ call' = [call EXCEPT ![c].final_state = row, ![c].pc = "fin_sync"]
    /\ UNCHANGED <<aux, row, articles, listing, workload, redis_available, redis_state, json_state, runs, prev>>

Result(cl) ==
    [status |-> "success",
     pages_crawled |-> cl.pages_processed,
     articles_found |-> Len(cl.all_links),
     articles_new |-> cl.counts.created,
     articles_updated |-> cl.counts.updated,
     articles_skipped |-> cl.counts.skipped,
     articles_failed |-> cl.counts.failed,
     incremental |-> cl.incremental]

\* the dictionary retry_failed_urls returns after finalization
RetryResult(cl) ==
    [status |-> "success",
     urls_retried |-> Len(cl.all_links),
     articles_created |-> cl.counts.created,
     articles_updated |-> cl.counts.updated,
     articles_failed |-> cl.counts.failed]

Returning(cl) == IF cl.op = "retry_failed_urls" THEN RetryResult(cl) ELSE Result(cl)

\* _finalize_crawl_state: sync_state_to_redis, save_state_to_json; crawl_board (or
\* retry_failed_urls) returns
FinSync(c) ==
    /\ call[c].pc = "fin_sync"
    /\ IF call[c].final_state.exists
       THEN \E redis_ok \in workload.redis_ok, json_ok \in workload.json_ok :
              LET r == sync_state_to_redis(redis_available, redis_client, redis_state,
                                           call[c].final_state, redis_ok)
                  j == save_state_to_json(json_state, call[c].final_state, json_ok)
              IN /\ redis_available' = r.available
                 /\ redis_state' = r.cache
                 /\ json_state' = j.file
                 /\ call' = [call EXCEPT ![c].result = Returning(call[c]),
                                          ![c].synced = [redis |-> r.value, json |-> j.value],
                                          ![c].pc = "returned"]
       ELSE /\ call' = [call EXCEPT ![c].result = Returning(call[c]), ![c].pc = "returned"]
            /\ UNCHANGED <<redis_available, redis_state, json_state>>
    /\ UNCHANGED <<aux, row, articles, listing, workload, runs, prev>>

\* ---------------------------------------------------------------- except Exception
\* crawl_board: update_crawl_state(board, ERROR, error_message=str(e)); when the
\* write itself raises, its exception leaves crawl_board from inside the handler
ExcUpdate(c) ==
    /\ call[c].pc = "exc_update"
    /\ \E ok \in workload.state_write_ok :
         IF ok
         THEN /\ row' = update_crawl_state(row, ERROR, None, Str(call[c].exc))
              /\ call' = [call EXCEPT ![c].pc = "exc_incr", ![c].retry_at_catch =
                            IF row.exists THEN row.retry_count ELSE DefaultRow.retry_count]
         ELSE /\ row' = row
              /\ call' = [call EXCEPT ![c].exc = PostgresError, ![c].pc = "raised"]
    /\ UNCHANGED <<aux, articles, listing, workload, redis_available, redis_state, json_state, runs, prev>>

\* crawl_board: increment_retry_count(board), then raise
ExcIncr(c) ==
    /\ call[c].pc = "exc_incr"
    /\ row' = increment_retry_count(row)
    /\ call' = [call EXCEPT ![c].pc = "raised"]
    /\ UNCHANGED <<aux, articles, listing, workload, redis_available, redis_state, json_state, runs, prev>>

\* ---------------------------------------------------------------- retry_failed_urls
\* retry_failed_urls(board): state = get_crawl_state(board); without failed urls it
\* returns at once, else failed_links is a copy of state.failed_urls and
\* state.failed_urls.clear() empties the list of the object just read
RetryStart(c) ==
    /\ call[c].pc \in {"idle", "returned", "raised"}
    /\ runs[c] > 0
    /\ call' = [call EXCEPT ![c] =
                  IF ~row.exists \/ row.failed_urls = <<>>
                  THEN [IdleCall EXCEPT !.op = "retry_failed_urls", !.pc = "returned",
                                        !.start_row = row,
                                        !.result = [status |-> "no_failed_urls",
                                                    urls_retried |-> 0]]
                  ELSE [IdleCall EXCEPT !.op = "retry_failed_urls", !.pc = "retry_update",
                                        !.start_row = row,
                                        !.crawl_state = [row EXCEPT !.failed_urls = <<>>],
                                        !.all_links = row.failed_urls]]
    /\ prev' = [prev EXCEPT ![c] = IF call[c].pc = "idle" THEN @ ELSE Summary(call[c])]
    /\ runs' = [runs EXCEPT ![c] = @ - 1]
    /\ UNCHANGED <<aux, row, articles, listing, workload, stateVars>>

\* retry_failed_urls: update_crawl_state(board, CRAWLING), then phase 2 creates
\* its tasks from failed_links
RetryUpdate(c) ==
    /\ call[c].pc = "retry_update"
    /\ \E ok \in workload.state_write_ok :
         IF ok
         THEN /\ row' = update_crawl_state(row, CRAWLING, None, NoMessage)
              /\ call' = [call EXCEPT ![c].tasks = NewTasks(call[c].all_links), ![c].pc = "p2"]
         ELSE /\ row' = row
              /\ call' = [call EXCEPT ![c] = Raise(@, PostgresError)]
    /\ UNCHANGED <<aux, articles, listing, workload, stateVars, runs, prev>>

\* ---------------------------------------------------------------- specifications
Next ==
    \E c \in Calls :
        \/ Start(c)
        \/ InitGet(c)
        \/ InitCreate(c)
        \/ InitForceUpdate(c)
        \/ InitForceReset(c)
        \/ GetState(c)
        \/ SetCrawling(c)
        \/ P1Scrape(c)
        \/ P1Progress(c)
        \/ \E i \in TaskIds : TaskAcquire(c, i)
        \/ \E i \in TaskIds : TaskScrape(c, i)
        \/ \E i \in TaskIds : TaskInsert(c, i)
        \/ \E i \in TaskIds : TaskAddProcessed(c, i)
        \/ \E i \in TaskIds : TaskAddFailed(c, i)
        \/ GatherDone(c)
        \/ FinUpdate(c)
        \/ FinReset(c)
        \/ FinGet(c)
        \/ FinSync(c)
        \/ ExcUpdate(c)
        \/ ExcIncr(c)

\* one caller, its calls one after the other
Spec == Init /\ [][Next]_vars

\* _finalize_crawl_state called on every combination of phase-2 counts
Counts == [created : 0..MaxCount, updated : 0..MaxCount,
           skipped : 0..MaxCount, failed : 0..MaxCount]

InitFinalize ==
    /\ InitCommon
    /\ AuxIdle
    /\ articles = NoArticles
    /\ listing \in {l \in Listings : \A p \in 1..MaxPages : l[p] = <<>>}
    /\ workload = [pages |-> {1}, incremental |-> {TRUE}, force |-> {FALSE},
                   redis_ok |-> BOOLEAN, json_ok |-> BOOLEAN,
                   url_write_ok |-> {TRUE}, state_write_ok |-> {TRUE}]
    /\ row \in {[DefaultRow EXCEPT !.status = CRAWLING, !.retry_count = r] :
                  r \in 0..DefaultMaxRetries}
    /\ runs = [c \in Calls |-> 0]
    /\ \E p2 \in Counts :
         call = [c \in Calls |->
                   IF c = 1 THEN [IdleCall EXCEPT !.pc = "fin_update", !.counts = p2,
                                                  !.crawl_state = row, !.start_row = row]
                   ELSE IdleCall]

NextFinalize ==
    \E c \in Calls :
        \/ FinUpdate(c)
        \/ FinReset(c)
        \/ FinGet(c)
        \/ FinSync(c)

SpecFinalize == InitFinalize /\ [][NextFinalize]_vars

\* boards whose earlier crawls left failed urls (or none) behind
FailedRows ==
    {[DefaultRow EXCEPT !.status = st, !.failed_urls = f, !.processed_urls = p] :
        st \in {COMPLETED, ERROR},
        f \in SeqsUpTo(URLs, MaxPages * MaxPageLinks),
        p \in SeqsUpTo(URLs, 1)}

InitRetryFailed ==
    /\ InitCommon
    /\ AuxIdle
    /\ listing = [p \in 1..MaxPages |-> <<>>]
    /\ workload = [pages |-> {1}, incremental |-> {TRUE}, force |-> {FALSE},
                   redis_ok |-> {TRUE}, json_ok |-> {TRUE},
                   url_write_ok |-> {TRUE}, state_write_ok |-> {TRUE}]
    /\ row \in {NoRow} \cup FailedRows
    /\ articles \in [URLs -> {0, 1}]
    /\ runs = [c \in Calls |-> IF c = 1 THEN 1 ELSE 0]
    /\ call = [c \in Calls |-> IdleCall]

NextRetryFailed ==
    \E c \in Calls :
        \/ RetryStart(c)
        \/ RetryUpdate(c)
        \/ \E i \in TaskIds : TaskAcquire(c, i)
        \/ \E i \in TaskIds : TaskScrape(c, i)
        \/ \E i \in TaskIds : TaskInsert(c, i)
        \/ \E i \in TaskIds : TaskAddProcessed(c, i)
        \/ \E i \in TaskIds : TaskAddFailed(c, i)
        \/ GatherDone(c)
        \/ FinUpdate(c)
        \/ FinReset(c)
        \/ FinGet(c)
        \/ FinSync(c)

\* one retry_failed_urls call on a board
SpecRetryFailed == InitRetryFailed /\ [][NextRetryFailed]_vars

\* two callers of one CrawlService, one call each, at the same time
InitConc ==
    /\ InitCommon
    /\ AuxIdle
    /\ articles = NoArticles
    /\ listing \in {l \in Listings : \A p \in 2..MaxPages : l[p] = <<>>}
    /\ workload = [pages |-> {1}, incremental |-> {TRUE}, force |-> BOOLEAN,
                   redis_ok |-> {TRUE}, json_ok |-> {TRUE},
                   url_write_ok |-> {TRUE}, state_write_ok |-> {TRUE}]
    /\ row = NoRow
    /\ runs = [c \in Calls |-> 1]
    /\ call = [c \in Calls |-> IdleCall]

SpecConc == InitConc /\ [][Next]_vars

\* no crawl_board call is made: the crawl service stays idle
CrawlIdle ==
    /\ listing = [p \in 1..MaxPages |-> <<>>]
    /\ workload = [pages |-> {1}, incremental |-> {TRUE}, force |-> {FALSE},
                   redis_ok |-> {TRUE}, json_ok |-> {TRUE},
                   url_write_ok |-> {TRUE}, state_write_ok |-> {TRUE}]
    /\ runs = [c \in Calls |-> 0]
    /\ call = [c \in Calls |-> IdleCall]

\* ---------------------------------------------------------------- article repository
IntegrityError == [type |-> "IntegrityError", code |-> NULL, message |-> "url exists"]
\* the server's answer to a statement sent in a transaction that had an error
InFailedSQLTransactionError ==
    [type |-> "InFailedSQLTransactionError", code |-> NULL, message |-> "transaction is aborted"]

\* insert_article: the INSERT meets the UNIQUE constraint on a stored url
\* (UniqueViolationError, raised on as IntegrityError); other errors are re-raised
insert_article(a, url, db_error) ==
    IF db_error THEN [articles |-> a, ids |-> <<>>, exc |-> PostgresError]
    ELSE IF a[url] > 0 THEN [articles |-> a, ids |-> <<>>, exc |-> IntegrityError]
    ELSE [articles |-> [a EXCEPT ![url] = @ + 1], ids |-> <<url>>, exc |-> NoExc]

\* batch_insert_articles: the for loop from its k-th article on, inside the one
\* transaction. A UniqueViolationError is caught and the loop continues, but the
\* server has put the transaction in the aborted state, where it refuses every
\* later statement; that error is re-raised by the except Exception branch.
RECURSIVE BatchInserts(_, _, _, _)
BatchInserts(tx, batch, k, fail_at) ==
    IF k > Len(batch) THEN tx
    ELSE IF tx.aborted THEN [tx EXCEPT !.exc = InFailedSQLTransactionError]
    ELSE IF k = fail_at THEN [tx EXCEPT !.exc = PostgresError]
    ELSE IF tx.rows[batch[k]] > 0
         THEN BatchInserts([tx EXCEPT !.aborted = TRUE], batch, k + 1, fail_at)
         ELSE BatchInserts([tx EXCEPT !.rows[batch[k]] = @ + 1, !.ids = Append(@, batch[k])],
                           batch, k + 1, fail_at)

\* batch_insert_articles: leaving the transaction block with an exception rolls
\* back; leaving it normally sends COMMIT, which the server answers with a
\* rollback, and no error, when the transaction is in the aborted state
batch_insert_articles(a, batch, fail_at) ==
    IF batch = <<>> THEN [articles |-> a, ids |-> <<>>, exc |-> NoExc]
    ELSE LET tx == BatchInserts([rows |-> a, aborted |-> FALSE, ids |-> <<>>, exc |-> NoExc],
                                batch, 1, fail_at)
         IN IF tx.exc # NoExc THEN [articles |-> a, ids |-> <<>>, exc |-> tx.exc]
            ELSE [articles |-> IF tx.aborted THEN a ELSE tx.rows, ids |-> tx.ids,
                  exc |-> NoExc]

Returns(op, args, before, r) ==
    [op |-> op, args |-> args, before |-> before, ids |-> r.ids, exc |-> r.exc]

\* ArticleRepository.insert_article(article) is called
InsertArticle ==
    /\ \E url \in URLs, db_error \in BOOLEAN :
         LET r == insert_article(articles, url, db_error)
         IN /\ articles' = r.articles
            /\ ret' = Returns("insert_article", <<url>>, articles, r)
    /\ UNCHANGED <<row, listing, workload, runs, call, prev, stateVars,
                   redis_client, redis_keys, input, crawl_state, firecrawl, config>>

\* ArticleRepository.batch_insert_articles(articles) is called
BatchInsert ==
    /\ \E batch \in SeqsUpTo(URLs, MaxBatch), fail_at \in 0..MaxBatch :
         LET r == batch_insert_articles(articles, batch, fail_at)
         IN /\ articles' = r.articles
            /\ ret' = Returns("batch_insert_articles", batch, articles, r)
    /\ UNCHANGED <<row, listing, workload, runs, call, prev, stateVars,
                   redis_client, redis_keys, input, crawl_state, firecrawl, config>>

InitArticles ==
    /\ InitCommon
    /\ CrawlIdle
    /\ AuxIdle
    /\ row = NoRow
    /\ articles \in [URLs -> {0, 1}]

NextArticles ==
    \/ InsertArticle
    \/ BatchInsert

\* inserts into the articles table through the repository
SpecArticles == InitArticles /\ [][NextArticles]_vars

\* ---------------------------------------------------------------- state service
\* mutant: the recovered state forgets the urls of the snapshot
recover_state_from_json_without_urls(file) ==
    IF file.board = NULL THEN NoRow
    ELSE [f \in DOMAIN DefaultRow |->
            IF f = "exists" THEN TRUE
            ELSE IF f \in {"processed_urls", "failed_urls"} THEN <<>> ELSE file[f]]

\* recover_state_from_json: the CrawlState built from the fields of the JSON file
\* (saved_at is not a field of CrawlState), or None when there is no file
recover_state_from_json(file) ==
    IF file.board = NULL THEN NoRow
    ELSE [f \in DOMAIN DefaultRow |-> IF f = "exists" THEN TRUE ELSE file[f]]

\* CrawlStates a finished crawl_board leaves in the snapshots
SnapshotStates ==
    {[DefaultRow EXCEPT !.status = COMPLETED, !.last_crawl_time = "set",
                        !.processed_urls = <<"u1">>],
     [DefaultRow EXCEPT !.status = ERROR, !.failed_urls = <<"u1", "u2">>]}

\* the last MaxTrail calls made on the service, each with what it returned
Trail(op, value) ==
    LET t == (IF ret = NoRet THEN <<>> ELSE ret.trail) \o <<(<<op, value>>)>>
    IN IF Len(t) > MaxTrail THEN Tail(t) ELSE t

ServiceCall(op, value) ==
    [op |-> op, value |-> value, trail |-> Trail(op, value),
     before |-> [available |-> redis_available, client |-> redis_client,
                 cache |-> redis_state]]

\* simulate_redis_failure: the flag is cleared and the client closed and dropped
SimulateRedisFailure ==
    /\ redis_available' = FALSE
    /\ redis_client' = FALSE
    /\ ret' = ServiceCall("simulate_redis_failure", NULL)
    /\ UNCHANGED <<crawlVars, redis_state, json_state, redis_keys, input, crawl_state, firecrawl, config>>

\* recover_redis_connection: initialize() makes a client and pings the server
RecoverRedisConnection ==
    /\ \E ping_ok \in BOOLEAN :
         /\ redis_available' = ping_ok
         /\ redis_client' = ping_ok
         /\ ret' = ServiceCall("recover_redis_connection", ping_ok)
    /\ UNCHANGED <<crawlVars, redis_state, json_state, redis_keys, input, crawl_state, firecrawl, config>>

\* recover_state_from_json(board)
RecoverStateFromJson ==
    /\ ret' = ServiceCall("recover_state_from_json", recover_state_from_json(json_state))
    /\ UNCHANGED <<crawlVars, stateVars, redis_client, redis_keys, input, crawl_state, firecrawl, config>>

\* sync_redis_from_json(board): recover_state_from_json, then sync_state_to_redis
SyncRedisFromJson ==
    /\ LET state == recover_state_from_json(json_state)
       IN IF ~state.exists
          THEN /\ ret' = ServiceCall("sync_redis_from_json", FALSE)
               /\ UNCHANGED <<redis_available, redis_state>>
          ELSE \E redis_ok \in BOOLEAN :
                 LET r == sync_state_to_redis(redis_available, redis_client, redis_state,
                                              state, redis_ok)
                 IN /\ redis_available' = r.available
                    /\ redis_state' = r.cache
                    /\ ret' = ServiceCall("sync_redis_from_json", r.value)
    /\ UNCHANGED <<crawlVars, json_state, redis_client, redis_keys, input, crawl_state, firecrawl, config>>

InitState ==
    /\ CrawlIdle
    /\ AuxIdle
    /\ row = NoRow
    /\ articles = NoArticles
    /\ prev = [c \in Calls |-> NoRun]
    /\ redis_available = TRUE
    /\ redis_client = TRUE
    /\ redis_keys = {}
    /\ input = NULL
    /\ redis_state \in {NoSnapshot} \cup {StateSnapshot(st) : st \in SnapshotStates}
    /\ json_state \in {NoSnapshot} \cup {JsonSnapshot(st) : st \in SnapshotStates}

NextState ==
    \/ SimulateRedisFailure
    \/ RecoverRedisConnection
    \/ RecoverStateFromJson
    \/ SyncRedisFromJson

\* the test and recovery operations of the State Service
SpecState == InitState /\ [][NextState]_vars

\* ---------------------------------------------------------------- scraping client
\* error codes scrape_article_with_retry re-raises without another attempt
NoRetryCodes == {"UNAUTHORIZED", "INVALID_URL", "CONTENT_NOT_FOUND", "QUOTA_EXCEEDED"}

\* what a request can meet: with an api key the FirecrawlApp client answers
\* (success, or an error object with a code), without one the raw HTTP request
\* or aiohttp; each is a pair of a kind and a status or code
Answered == <<"ok", NULL>>
NoAnswer == <<NULL, NULL>>
HttpOutcomes ==
    {Answered, <<"timeout", NULL>>, <<"connection", NULL>>, <<"other", NULL>>}
    \cup {<<"http", status>> : status \in {"401", "429", "503", "500"}}
ClientOutcomes ==
    {Answered, <<"other", NULL>>}
    \cup {<<"api", code>> : code \in NoRetryCodes \cup {"TIMEOUT"}}

TypeErrorExc ==
    [type |-> "TypeError", code |-> NULL, message |-> "catching classes that do not inherit from BaseException is not allowed"]

\* the exception the try block of _make_request raises: from the client's error
\* object, from _make_http_request by the status of the answer, or from aiohttp
RequestRaises(outcome) ==
    CASE outcome = Answered -> NoExc
      [] outcome[1] = "timeout" ->
            [type |-> "TimeoutError", code |-> NULL, message |-> "timeout"]
      [] outcome[1] = "connection" ->
            [type |-> "ClientConnectionError", code |-> NULL, message |-> "connection"]
      [] outcome = <<"http", "401">> -> FirecrawlError("UNAUTHORIZED")
      [] outcome = <<"http", "429">> -> FirecrawlError("RATE_LIMITED")
      [] outcome = <<"http", "503">> -> FirecrawlError("SERVICE_UNAVAILABLE")
      [] outcome[1] = "http" -> FirecrawlError("HTTP_ERROR")
      [] outcome[1] = "api" -> FirecrawlError(outcome[2])
      [] OTHER -> [type |-> "Exception", code |-> NULL, message |-> "other"]

\* _make_request: an exception of the try block is matched against the except
\* clauses in order, and the first one names aiohttp.ClientTimeout, a settings
\* class that is not an exception: the match itself raises TypeError, which
\* leaves the try statement
_make_request(outcome) ==
    IF RequestRaises(outcome) = NoExc THEN NoExc ELSE TypeErrorExc

\* scrape_article_with_retry: one pass of the for loop, with the outcome of its
\* scrape_article call; waits holds the whole seconds of each asyncio.sleep
\* (2**attempt, the jitter below one second left out)
RetryAttempt(fc, outcome) ==
    LET e == _make_request(outcome)
        tried == [fc EXCEPT !.requests = @ + 1, !.last_outcome = outcome,
                            !.failures = IF e = NoExc THEN @ ELSE Append(@, outcome)]
    IN IF e = NoExc THEN [tried EXCEPT !.pc = "returned"]
       ELSE IF e.type # "FirecrawlError" THEN [tried EXCEPT !.pc = "raised", !.exc = e]
       ELSE IF e.code \in NoRetryCodes THEN [tried EXCEPT !.pc = "raised", !.exc = e]
       ELSE IF fc.attempt < fc.max_retries
            THEN [tried EXCEPT !.attempt = @ + 1, !.waits = Append(@, 2 ^ fc.attempt)]
            ELSE [tried EXCEPT !.pc = "raised", !.exc = e]

\* scrape_article_with_retry(url) is called
ScrapeStart ==
    /\ firecrawl.pc # "attempt"
    /\ \E url \in URLs :
         firecrawl' = [firecrawl EXCEPT !.pc = "attempt", !.url = url, !.attempt = 0,
                                        !.requests = 0, !.last_outcome = NoAnswer, !.exc = NoExc,
                                        !.failures = <<>>, !.waits = <<>>]
    /\ UNCHANGED <<crawlVars, stateVars, redis_client, redis_keys, input, crawl_state, config, ret>>

\* scrape_article_with_retry: scrape_article(url) and what follows it in the loop
ScrapeAttempt ==
    /\ firecrawl.pc = "attempt"
    /\ \E outcome \in (IF firecrawl.client THEN ClientOutcomes ELSE HttpOutcomes) :
         firecrawl' = RetryAttempt(firecrawl, outcome)
    /\ UNCHANGED <<crawlVars, stateVars, redis_client, redis_keys, input, crawl_state, config, ret>>

InitFirecrawl ==
    /\ InitCommon
    /\ CrawlIdle
    /\ row = NoRow
    /\ articles = NoArticles
    /\ crawl_state = NoRow
    /\ config = NULL
    /\ ret = NoRet
    /\ firecrawl \in [pc : {"idle"}, url : {NULL}, client : BOOLEAN,
                       max_retries : 0..MaxScrapeRetries, attempt : {0}, requests : {0},
                       last_outcome : {NoAnswer}, exc : {NoExc},
                       failures : {<<>>}, waits : {<<>>}]

NextFirecrawl ==
    \/ ScrapeStart
    \/ ScrapeAttempt

\* scrape_article_with_retry calls on one FirecrawlService
SpecFirecrawl == InitFirecrawl /\ [][NextFirecrawl]_vars

\* ---------------------------------------------------------------- retry counter
\* mutant: the helper is silent at the ceiling, as the repository's UPDATE is
CrawlState_increment_retry_count_silent(s) ==
    IF s.retry_count < s.max_retries
    THEN [state |-> [s EXCEPT !.retry_count = @ + 1], exc |-> NoExc]
    ELSE [state |-> s, exc |-> NoExc]

\* CrawlState.increment_retry_count: the object after the call and what it raised
CrawlState_increment_retry_count(s) ==
    IF s.retry_count < s.max_retries
    THEN [state |-> [s EXCEPT !.retry_count = @ + 1], exc |-> NoExc]
    ELSE [state |-> s, exc |-> ValueErrorExc("max retries reached")]

\* CrawlState objects and crawl_states rows that pass _validate_retry_counts
RetryStates ==
    {[DefaultRow EXCEPT !.status = ERROR, !.retry_count = p[1], !.max_retries = p[2]] :
        p \in {q \in (0..MaxRetryLimit) \X (0..MaxRetryLimit) : q[1] <= q[2]}}

Returned(op, before, exc) == [op |-> op, before |-> before, exc |-> exc]

\* crawl_state.increment_retry_count() on the object
ModelIncrementRetry ==
    /\ LET r == CrawlState_increment_retry_count(crawl_state)
       IN /\ crawl_state' = r.state
          /\ ret' = Returned("CrawlState.increment_retry_count", crawl_state, r.exc)
    /\ UNCHANGED <<crawlVars, stateVars, redis_client, redis_keys, input, firecrawl, config>>

\* crawl_state.reset_retry_count() on the object
ModelResetRetry ==
    /\ crawl_state' = reset_retry_count(crawl_state)
    /\ ret' = Returned("CrawlState.reset_retry_count", crawl_state, NoExc)
    /\ UNCHANGED <<crawlVars, stateVars, redis_client, redis_keys, input, firecrawl, config>>

\* CrawlStateRepository.increment_retry_count(board)
RepoIncrementRetry ==
    /\ row' = increment_retry_count(row)
    /\ ret' = Returned("CrawlStateRepository.increment_retry_count", row, NoExc)
    /\ UNCHANGED <<articles, listing, workload, runs, call, prev, stateVars,
                   redis_client, redis_keys, input, crawl_state, firecrawl, config>>

\* CrawlStateRepository.reset_retry_count(board)
RepoResetRetry ==
    /\ row' = reset_retry_count(row)
    /\ ret' = Returned("CrawlStateRepository.reset_retry_count", row, NoExc)
    /\ UNCHANGED <<articles, listing, workload, runs, call, prev, stateVars,
                   redis_client, redis_keys, input, crawl_state, firecrawl, config>>

InitRetry ==
    /\ InitCommon
    /\ CrawlIdle
    /\ articles = NoArticles
    /\ row \in RetryStates
    /\ crawl_state \in RetryStates
    /\ firecrawl = NULL
    /\ config = NULL
    /\ ret = NoRet

NextRetry ==
    \/ ModelIncrementRetry
    \/ ModelResetRetry
    \/ RepoIncrementRetry
    \/ RepoResetRetry

\* the retry counter driven through the model helper and through the repository
SpecRetry == InitRetry /\ [][NextRetry]_vars

\* ---------------------------------------------------------------- configuration
\* a configuration value: a Python int, a str holding the decimal text of n,
\* or a str holding some other text (a url); Absent is a key that is not there
IntValue(n) == [type |-> "int", numeric |-> TRUE, n |-> n]
StrValue(n) == [type |-> "str", numeric |-> TRUE, n |-> n]
Text == [type |-> "str", numeric |-> FALSE, n |-> 0]
Absent == [type |-> "absent", numeric |-> FALSE, n |-> 0]

\* str(value)
str(v) == IF v.type = "int" THEN StrValue(v.n) ELSE v

\* the values of crawl.rate_limit that are set or put in the environment
RateValues == {-10, 0, 60, 200, 1001}

ConfigKeys == {"crawl.rate_limit", "crawl.rate.limit", "firecrawl.api_url",
               "database.url", "FIRECRAWL_API_URL", "DATABASE_URL"}
NoConfig == [k \in ConfigKeys |-> Absent]
Keys(d) == {k \in ConfigKeys : d[k] # Absent}

DEFAULT_CONFIG ==
    [k \in ConfigKeys |->
        CASE k = "crawl.rate_limit" -> IntValue(60)
          [] k = "firecrawl.api_url" -> Text
          [] OTHER -> Absent]

flat_key_mappings ==
    [k \in ConfigKeys |->
        IF k \in {"FIRECRAWL_API_URL", "DATABASE_URL"} THEN Text ELSE Absent]

\* dict.update
update(d, e) == [k \in ConfigKeys |-> IF e[k] # Absent THEN e[k] ELSE d[k]]

\* what the function gives back when it does not raise: it has no return statement
ReturnsNone == "None"
Truthy(v) == v = "True"

\* validate_config_value(key, value): the exception it raises, or NoExc
validate_config_value(key, value) ==
    CASE key = "crawl.rate_limit" ->
            IF value.type # "int" \/ value.n <= 0
            THEN ValueErrorExc("crawl.rate_limit must be positive")
            ELSE IF value.n > 1000
                 THEN ValueErrorExc("crawl.rate_limit must not exceed 1000")
                 ELSE NoExc
      [] key = "firecrawl.api_url" ->
            IF value.type # "str"
            THEN ValueErrorExc("firecrawl.api_url must not be empty")
            ELSE IF value.numeric
                 THEN ValueErrorExc("firecrawl.api_url must be a valid url")
                 ELSE NoExc
      [] OTHER -> NoExc

EnvNames == {"PTT_CRAWLER_RATE_LIMIT", "PTT_CRAWLER_CRAWL_RATE_LIMIT"}

\* ConfigLoader._env_to_config_key on these names: the prefix is removed, the
\* rest lower-cased, every underscore becomes a dot, then the aliases apply
_env_to_config_key(name) ==
    CASE name = "PTT_CRAWLER_RATE_LIMIT" -> "crawl.rate_limit"
      [] name = "PTT_CRAWLER_CRAWL_RATE_LIMIT" -> "crawl.rate.limit"

load_from_environment(env) ==
    [k \in ConfigKeys |->
        IF \E e \in EnvNames : _env_to_config_key(e) = k /\ env[e] # Absent
        THEN env[CHOOSE e \in EnvNames : _env_to_config_key(e) = k /\ env[e] # Absent]
        ELSE Absent]

\* a JSON file that holds crawl.rate_limit, or no file
load_from_file(file) ==
    [k \in ConfigKeys |-> IF k = "crawl.rate_limit" THEN str(file) ELSE Absent]

\* ConfigRepository.get_all_configs: the rows, then the defaults for missing keys
get_all_configs(table) ==
    [k \in ConfigKeys |->
        IF k = "crawl.rate_limit" /\ table # Absent THEN table
        ELSE str(DEFAULT_CONFIG[k])]

_validate_positive_int(value, min_val, max_val) ==
    value.numeric /\ min_val <= value.n /\ value.n <= max_val

required_configs == {"FIRECRAWL_API_URL", "DATABASE_URL"}
dotted_equivalent(k) == IF k = "FIRECRAWL_API_URL" THEN "firecrawl.api_url" ELSE "database.url"

\* the keys that pass the first loop of validate_config
Validated(c) ==
    {k \in Keys(c) : /\ validate_config_value(k, c[k]) = NoExc
                     /\ Truthy(ReturnsNone)}

\* the errors validate_config collects, as pairs of a kind and a key
Errors(c) ==
    LET validated_config == Validated(c)
    IN  {<<"raised", k>> : k \in {j \in Keys(c) : validate_config_value(j, c[j]) # NoExc}}
        \cup {<<"invalid", k>> : k \in {j \in Keys(c) :
                    /\ validate_config_value(j, c[j]) = NoExc
                    /\ ~Truthy(ReturnsNone)}}
        \cup {<<"missing", k>> : k \in {j \in required_configs :
                    /\ j \notin validated_config
                    /\ dotted_equivalent(j) \notin validated_config}}
        \cup {<<"range", k>> : k \in {j \in validated_config \cap {"crawl.rate_limit"} :
                    ~_validate_positive_int(c[j], 1, 1000)}}

\* ConfigLoader.validate_config(config)
validate_config(c) ==
    LET errors == Errors(c)
    IN  IF errors # {}
        THEN [exc |-> ValueErrorExc("config validation failed"), errors |-> errors,
              value |-> NoConfig]
        ELSE [exc |-> NoExc, errors |-> {},
              value |-> [k \in ConfigKeys |-> IF k \in Validated(c) THEN c[k] ELSE Absent]]

\* the dictionary load_config has merged before it validates it
Merged(cfg, use_environment, use_database, use_defaults, db_ok) ==
    LET c1 == IF use_defaults
              THEN update([k \in ConfigKeys |-> str(DEFAULT_CONFIG[k])], flat_key_mappings)
              ELSE NoConfig
        c2 == IF cfg.file # Absent THEN update(c1, load_from_file(cfg.file)) ELSE c1
        c3 == IF use_database /\ cfg.repo /\ db_ok
              THEN update(c2, get_all_configs(cfg.table)) ELSE c2
    IN  IF use_environment THEN update(c3, load_from_environment(cfg.env)) ELSE c3

\* ConfigLoader.load_config(config_file, use_environment, use_database, use_defaults)
LoadConfig ==
    \E use_environment, use_database, use_defaults, db_ok \in BOOLEAN :
        LET merged == Merged(config, use_environment, use_database, use_defaults, db_ok)
            r == validate_config(merged)
        IN  /\ config' = IF r.exc = NoExc THEN [config EXCEPT !.cached = r.value]
                         ELSE config
            /\ ret' = [op |-> "load_config",
                       args |-> [use_environment |-> use_environment,
                                 use_database |-> use_database /\ config.repo /\ db_ok,
                                 use_defaults |-> use_defaults],
                       merged |-> merged, exc |-> r.exc, errors |-> r.errors,
                       value |-> r.value]
            /\ UNCHANGED <<crawlVars, stateVars, redis_client, redis_keys, input, crawl_state, firecrawl>>

\* ConfigRepository.set_config("crawl.rate_limit", value): the value is a str,
\* as the signature, the command line and the callers give it
SetConfig ==
    \E n \in RateValues :
        LET value == StrValue(n)
            exc == validate_config_value("crawl.rate_limit", value)
        IN  /\ config' = IF exc = NoExc THEN [config EXCEPT !.table = value] ELSE config
            /\ ret' = [op |-> "set_config", args |-> value, before |-> config.table,
                       exc |-> exc]
            /\ UNCHANGED <<crawlVars, stateVars, redis_client, redis_keys, input, crawl_state, firecrawl>>

\* validate_config_value("crawl.rate_limit", value) on its own, on ints and strs
ValidateValue ==
    \E value \in {IntValue(n) : n \in RateValues}
                    \cup {StrValue(n) : n \in RateValues} \cup {Text} :
        /\ ret' = [op |-> "validate_config_value", args |-> value,
                   exc |-> validate_config_value("crawl.rate_limit", value),
                   value |-> ReturnsNone]
        /\ UNCHANGED <<crawlVars, stateVars, redis_client, redis_keys, input, crawl_state, firecrawl, config>>

InitConfig ==
    /\ InitCommon
    /\ CrawlIdle
    /\ row = NoRow
    /\ articles = NoArticles
    /\ crawl_state = NoRow
    /\ firecrawl = NULL
    /\ ret = NoRet
    /\ \E file \in {Absent, IntValue(90), StrValue(90)},
          table \in {Absent, StrValue(120)},
          e1 \in {Absent} \cup {StrValue(n) : n \in RateValues},
          e2 \in {Absent, StrValue(200)},
          repo \in BOOLEAN :
            config = [file |-> file, table |-> table, repo |-> repo,
                      env |-> [e \in EnvNames |->
                                  IF e = "PTT_CRAWLER_RATE_LIMIT" THEN e1 ELSE e2],
                      cached |-> NoConfig]

NextConfig ==
    \/ LoadConfig
    \/ SetConfig
    \/ ValidateValue

\* the configuration loader and the configs table
SpecConfig == InitConfig /\ [][NextConfig]_vars

\* ---------------------------------------------------------------- clean command
\* the key sync_state_to_redis writes for the board, and other keys of the cache
StateKey == "crawl_state:Stock"
CacheKeys == {"ptt:crawl:state:Stock", "ptt:crawl:cache:page", "session:1"}

\* key.startswith("ptt:crawl:state:") on these keys
startswith_state_prefix(key) == key = "ptt:crawl:state:Stock"

\* RedisClient.keys("*"): every key the cache holds
keys(state, others) == others \cup (IF state # NoSnapshot THEN {StateKey} ELSE {})

RedisErrorExc == [type |-> "RedisError", code |-> NULL, message |-> "connection refused"]

\* _clean_redis_cache(config): deletes the keys its filter does not exclude
_clean_redis_cache(state, others, redis_ok) ==
    IF ~redis_ok
    THEN [exc |-> RedisErrorExc, state |-> state, others |-> others, count |-> 0]
    ELSE LET all_keys == keys(state, others)
             cache_keys == {k \in all_keys : ~startswith_state_prefix(k)}
         IN  [exc |-> NoExc,
              state |-> IF StateKey \in cache_keys THEN NoSnapshot ELSE state,
              others |-> others \ cache_keys,
              count |-> Cardinality(cache_keys)]

\* the sources a ConfigLoader() of the command line reads: no file, no
\* repository, and the environment
CommandConfigs ==
    {[file |-> Absent, table |-> Absent, repo |-> FALSE, cached |-> NoConfig,
      env |-> [e \in EnvNames |-> IF e = "PTT_CRAWLER_RATE_LIMIT" THEN v ELSE Absent]]
        : v \in {Absent, StrValue(200)}}

\* clean --cache --no-confirm: _async_clean loads the configuration, cleans the
\* cache and reports; an exception of load_config ends the command with exit
\* code 1, one of _clean_redis_cache is reported as a failed target
CleanCommand ==
    \E redis_ok \in BOOLEAN :
        LET loaded == validate_config(Merged(config, TRUE, FALSE, TRUE, TRUE))
            r == _clean_redis_cache(redis_state, redis_keys, redis_ok)
            before == [state |-> redis_state, others |-> redis_keys]
        IN  IF loaded.exc # NoExc
            THEN /\ ret' = [op |-> "clean", before |-> before, exit_code |-> 1,
                            exc |-> loaded.exc, redis_ok |-> redis_ok]
                 /\ UNCHANGED <<crawlVars, stateVars, redis_client, redis_keys, input,
                                crawl_state, firecrawl, config>>
            ELSE /\ redis_state' = r.state
                 /\ redis_keys' = r.others
                 /\ config' = [config EXCEPT !.cached = loaded.value]
                 /\ ret' = [op |-> "clean", before |-> before,
                            exit_code |-> IF r.exc = NoExc THEN 0 ELSE 1,
                            exc |-> NoExc, redis_ok |-> redis_ok]
                 /\ UNCHANGED <<crawlVars, redis_available, json_state, redis_client, input,
                                crawl_state, firecrawl>>

\* _clean_redis_cache(config) called on its own with a configuration
CleanRedisCache ==
    \E redis_ok \in BOOLEAN :
        LET r == _clean_redis_cache(redis_state, redis_keys, redis_ok)
        IN  /\ redis_state' = r.state
            /\ redis_keys' = r.others
            /\ ret' = [op |-> "_clean_redis_cache",
                       before |-> [state |-> redis_state, others |-> redis_keys],
                       exit_code |-> 0, exc |-> r.exc, redis_ok |-> redis_ok]
            /\ UNCHANGED <<crawlVars, redis_available, json_state, redis_client, input,
                           crawl_state, firecrawl, config>>

\* the State Service writes the board's snapshot: sync_state_to_redis(crawl_state)
SyncState ==
    \E st \in SnapshotStates, ok \in BOOLEAN :
        LET r == sync_state_to_redis(redis_available, redis_client, redis_state, st, ok)
        IN  /\ redis_available' = r.available
            /\ redis_state' = r.cache
            /\ ret' = [op |-> "sync_state_to_redis",
                       before |-> [state |-> redis_state, others |-> redis_keys],
                       exit_code |-> 0, exc |-> NoExc, redis_ok |-> ok]
            /\ UNCHANGED <<crawlVars, json_state, redis_client, redis_keys, input, crawl_state,
                           firecrawl, config>>

InitClean ==
    /\ CrawlIdle
    /\ row = NoRow
    /\ articles = NoArticles
    /\ prev = [c \in Calls |-> NoRun]
    /\ redis_available = TRUE
    /\ redis_client = TRUE
    /\ redis_state = NoSnapshot
    /\ json_state = NoSnapshot
    /\ redis_keys \in SUBSET CacheKeys
    /\ input = NULL
    /\ crawl_state = NoRow
    /\ firecrawl = NULL
    /\ config \in CommandConfigs
    /\ ret = NoRet

NextClean ==
    \/ CleanCommand
    \/ CleanRedisCache
    \/ SyncState

\* the cache under the State Service's writes and the clean command
SpecClean == InitClean /\ [][NextClean]_vars

\* ---------------------------------------------------------------- model methods
\* a float, kept as the number of thousandths it holds (rounded down)
Thousandths(num, den) == (num * 1000) \div den

\* CrawlState.get_success_rate()
get_success_rate(s) ==
    LET total_urls == Len(s.processed_urls) + Len(s.failed_urls)
    IN  IF total_urls = 0 THEN Thousandths(0, 1)
        ELSE Thousandths(Len(s.processed_urls) * 100, total_urls)

\* CrawlState.add_failed_url(url) of the model: the url is appended once
CrawlState_add_failed_url(s, url) ==
    IF InSeq(url, s.failed_urls) THEN s
    ELSE [s EXCEPT !.failed_urls = Append(@, url)]

\* state.get_success_rate()
GetSuccessRate ==
    /\ crawl_state.exists
    /\ ret' = [op |-> "get_success_rate", before |-> crawl_state,
               value |-> get_success_rate(crawl_state)]
    /\ UNCHANGED <<crawlVars, stateVars, redis_client, redis_keys, input, crawl_state,
                   firecrawl, config>>

\* state.add_failed_url(url)
ModelAddFailedUrl ==
    \E url \in URLs :
        /\ crawl_state.exists
        /\ crawl_state' = CrawlState_add_failed_url(crawl_state, url)
        /\ ret' = [op |-> "add_failed_url", before |-> crawl_state, value |-> NULL]
        /\ UNCHANGED <<crawlVars, stateVars, redis_client, redis_keys, input,
                       firecrawl, config>>

\* CrawlState objects with up to MaxListLen processed urls and no failed url yet
InitRate ==
    /\ InitCommon
    /\ CrawlIdle
    /\ row = NoRow
    /\ articles = NoArticles
    /\ \E p \in SeqsUpTo(URLs, MaxListLen) :
          crawl_state = [DefaultRow EXCEPT !.status = COMPLETED, !.processed_urls = p]
    /\ firecrawl = NULL
    /\ config = NULL
    /\ ret = NoRet

NextRate ==
    \/ GetSuccessRate
    \/ ModelAddFailedUrl

\* the statistics of a CrawlState object
SpecRate == InitRate /\ [][NextRate]_vars

\* ---------------------------------------------------------------- health check
HealthStatuses == {"healthy", "warning", "critical"}
basic_checks == {"database", "redis", "firecrawl"}
detailed_checks == {"disk", "memory", "logs", "crawl_stats"}
\* the checks that are coroutines; the others are plain methods, whose call
\* gives a HealthStatus object at once
CoroutineChecks == basic_checks \cup {"crawl_stats"}

all_checks(detailed) == IF detailed THEN basic_checks \cup detailed_checks ELSE basic_checks

\* asyncio.gather(*all_checks): every argument has to be awaitable
gather(checks) ==
    IF checks \subseteq CoroutineChecks THEN NoExc
    ELSE [type |-> "TypeError", code |-> NULL,
          message |-> "An asyncio.Future, a coroutine or an awaitable is required"]

\* the overall status run_all_checks derives from the results it gathered
overall_status(results, checks) ==
    IF \E c \in checks : results[c] = "critical" THEN "critical"
    ELSE IF \E c \in checks : results[c] = "warning" THEN "warning"
    ELSE "healthy"

\* SystemHealthChecker.run_all_checks(detailed)
run_all_checks(results, detailed) ==
    IF gather(all_checks(detailed)) # NoExc
    THEN [exc |-> gather(all_checks(detailed)), overall_status |-> NULL]
    ELSE [exc |-> NoExc, overall_status |-> overall_status(results, all_checks(detailed))]

\* main() of the script: the configuration is loaded, the checks are run, the
\* exit code is set; any exception ends in exit code 3
health_check_main(cfg, results, detailed) ==
    LET loaded == validate_config(Merged(cfg, TRUE, TRUE, TRUE, TRUE))
        health_data == run_all_checks(results, detailed)
    IN  IF loaded.exc # NoExc THEN [exit_code |-> 3, exc |-> loaded.exc]
        ELSE IF health_data.exc # NoExc THEN [exit_code |-> 3, exc |-> health_data.exc]
        ELSE [exc |-> NoExc,
              exit_code |-> CASE health_data.overall_status = "critical" -> 2
                              [] health_data.overall_status = "warning" -> 1
                              [] OTHER -> 0]

\* python health_check.py [--detailed]
HealthCheckMain ==
    LET r == health_check_main(config, input.results, input.detailed)
    IN  /\ ret' = [op |-> "health_check", exit_code |-> r.exit_code, exc |-> r.exc,
                   overall_status |-> NULL]
        /\ UNCHANGED <<crawlVars, stateVars, redis_client, redis_keys, input, crawl_state,
                       firecrawl, config>>

\* checker.run_all_checks(detailed) on a checker built with a configuration
RunAllChecks ==
    LET r == run_all_checks(input.results, input.detailed)
    IN  /\ ret' = [op |-> "run_all_checks", exit_code |-> 0, exc |-> r.exc,
                   overall_status |-> r.overall_status]
        /\ UNCHANGED <<crawlVars, stateVars, redis_client, redis_keys, input, crawl_state,
                       firecrawl, config>>

\* what each check finds on the system, and how the script is started
InitHealth ==
    /\ CrawlIdle
    /\ row = NoRow
    /\ articles = NoArticles
    /\ prev = [c \in Calls |-> NoRun]
    /\ redis_available = TRUE
    /\ redis_client = TRUE
    /\ redis_keys = {}
    /\ redis_state = NoSnapshot
    /\ json_state = NoSnapshot
    /\ input \in [detailed : BOOLEAN,
                  results : [basic_checks \cup detailed_checks -> HealthStatuses]]
    /\ crawl_state = NoRow
    /\ firecrawl = NULL
    /\ config \in CommandConfigs
    /\ ret = NoRet

NextHealth ==
    \/ HealthCheckMain
    \/ RunAllChecks

\* the health-check script
SpecHealth == InitHealth /\ [][NextHealth]_vars

\* ---------------------------------------------------------------- category of a title
\* a title is a sequence of characters; "a" is a character of a label or of the
\* text, "Re: " is the reply prefix taken as one piece
TitleChars == {"[", "]", "a", " ", "Re: "}
Titles == UNION {[1..n -> TitleChars] : n \in 1..MaxTitle}

NoCategory == [found |-> FALSE, text |-> <<>>]
Category(text) == [found |-> TRUE, text |-> text]

\* the first "]" after position i, or 0
FirstClose(title, i) ==
    IF \E j \in (i + 1)..Len(title) : title[j] = "]"
    THEN CHOOSE j \in (i + 1)..Len(title) :
            /\ title[j] = "]"
            /\ \A k \in (i + 1)..(j - 1) : title[k] # "]"
    ELSE 0

\* the pattern \[([^\]]+)\] matches at position i
MatchAt(title, i) ==
    /\ i \in 1..Len(title)
    /\ title[i] = "["
    /\ FirstClose(title, i) > i + 1

\* group(1) of the match at position i
Group(title, i) == SubSeq(title, i + 1, FirstClose(title, i) - 1)

\* str.strip()
RECURSIVE strip(_)
strip(s) ==
    IF s = <<>> THEN s
    ELSE IF Head(s) = " " THEN strip(Tail(s))
    ELSE IF s[Len(s)] = " " THEN strip(SubSeq(s, 1, Len(s) - 1))
    ELSE s

\* Article.extract_category_from_title: re.match(r"^\[([^\]]+)\]", title)
extract_category_from_title(title) ==
    IF MatchAt(title, 1) THEN Category(Group(title, 1)) ELSE NoCategory

\* ParserService._extract_category_from_title: re.search(r"\[([^\]]+)\]", title),
\* the group stripped; category_mapping maps each of its keys to itself
_extract_category_from_title(title) ==
    IF \E i \in 1..Len(title) : MatchAt(title, i)
    THEN LET i == CHOOSE i \in 1..Len(title) :
                    MatchAt(title, i) /\ \A k \in 1..(i - 1) : ~MatchAt(title, k)
         IN  Category(strip(Group(title, i)))
    ELSE NoCategory

\* both extractions applied to the title
ExtractCategory ==
    /\ ret' = [op |-> "extract_category",
               article |-> extract_category_from_title(input),
               parser |-> _extract_category_from_title(input)]
    /\ UNCHANGED <<crawlVars, stateVars, redis_client, redis_keys, input, crawl_state,
                   firecrawl, config>>

InitCategory ==
    /\ CrawlIdle
    /\ row = NoRow
    /\ articles = NoArticles
    /\ prev = [c \in Calls |-> NoRun]
    /\ redis_available = TRUE
    /\ redis_client = TRUE
    /\ redis_keys = {}
    /\ redis_state = NoSnapshot
    /\ json_state = NoSnapshot
    /\ input \in Titles
    /\ crawl_state = NoRow
    /\ firecrawl = NULL
    /\ config = NULL
    /\ ret = NoRet

NextCategory == ExtractCategory

\* the category of a title, by the article model and by the parser
SpecCategory == InitCategory /\ [][NextCategory]_vars

\* ---------------------------------------------------------------- one board, every operation
\* CrawlState.can_retry
can_retry(s) == s.status = ERROR /\ s.retry_count < s.max_retries

\* rows earlier calls on the board can have left behind
BoardRows ==
    {[DefaultRow EXCEPT !.status = st, !.retry_count = r, !.failed_urls = f] :
        st \in {IDLE, CRAWLING, ERROR, COMPLETED},
        r \in {0, DefaultMaxRetries},
        f \in {<<>>, <<"u1">>}}

\* no call of the crawl service is under way
BetweenCalls == \A c \in Calls : call[c].pc \in {"idle", "returned", "raised"}

InitBoard ==
    /\ InitCommon
    /\ AuxIdle
    /\ articles = NoArticles
    /\ listing \in {l \in Listings : \A p \in 2..MaxPages : l[p] = <<>>}
    /\ workload = [pages |-> {1}, incremental |-> {TRUE}, force |-> BOOLEAN,
                   redis_ok |-> {TRUE}, json_ok |-> {TRUE},
                   url_write_ok |-> {TRUE}, state_write_ok |-> {TRUE}]
    /\ row \in {NoRow} \cup BoardRows
    /\ runs = [c \in Calls |-> IF c = 1 THEN MaxRuns ELSE 0]
    /\ call = [c \in Calls |-> IdleCall]

NextBoard ==
    \/ Next
    \/ \E c \in Calls : RetryStart(c)
    \/ \E c \in Calls : RetryUpdate(c)
    \/ BetweenCalls /\ RepoIncrementRetry
    \/ BetweenCalls /\ RepoResetRetry

\* crawl_board, retry_failed_urls and the repository's retry counter calls on
\* one board, one after the other in any order
SpecBoard == InitBoard /\ [][NextBoard]_vars

\* ---------------------------------------------------------------- rate limit and semaphore of the client
\* FirecrawlService.__init__: the limits of the client
_max_requests_per_minute == 100
_concurrent_limit == 5
\* _check_rate_limit: the length of the window, in seconds
RateWindow == 60

Requesters == 1..MaxCallers
NoTask == [pc |-> "idle", now |-> 0, wake |-> 0]

\* the requests of a window: empty for a new service, or one request followed
\* MaxTicks seconds before the end of its window by all the others the limit allows
EarlierRequests ==
    {<<>>,
     [i \in 1.._max_requests_per_minute |-> IF i = 1 THEN 0 ELSE RateWindow - MaxTicks + 1]}

\* [t for t in self._request_times if now - t < 60]
FilterTimes(times, now) ==
    LET recent(t) == now - t < RateWindow
    IN SelectSeq(times, recent)

Last(s) == IF s = <<>> THEN 0 ELSE s[Len(s)]

\* mutant: the request is sent without taking a permit of the semaphore
Enter_NoSemaphore(fc, t) ==
    [fc EXCEPT !.sent = Append(@, fc.clock), !.tasks[t] = [NoTask EXCEPT !.pc = "in_flight"]]

\* async with self._semaphore: the permit is taken at once when one is free and
\* the request is sent, else the caller waits for a release
Enter(fc, t) ==
    IF fc.permits > 0
    THEN [fc EXCEPT !.permits = @ - 1, !.sent = Append(@, fc.clock),
                    !.tasks[t] = [NoTask EXCEPT !.pc = "in_flight"]]
    ELSE [fc EXCEPT !.tasks[t] = [NoTask EXCEPT !.pc = "acquire"]]

\* _check_rate_limit up to its await: now = time.time(), the list is pruned, and
\* with a full list the caller sleeps until the oldest request is a minute old
_check_rate_limit(fc, t) ==
    LET now == fc.clock
        kept == FilterTimes(fc._request_times, now)
        pruned == [fc EXCEPT !._request_times = kept, !.tasks[t].now = now]
    IN IF Len(kept) >= _max_requests_per_minute /\ RateWindow - (now - kept[1]) > 0
       THEN [pruned EXCEPT !.tasks[t].pc = "sleep",
                           !.tasks[t].wake = now + (RateWindow - (now - kept[1]))]
       ELSE Enter([pruned EXCEPT !._request_times = Append(@, now)], t)

\* _check_rate_limit after asyncio.sleep: self._request_times.append(now), with
\* the now read before the sleep
_check_rate_limit_resume(fc, t) ==
    Enter([fc EXCEPT !._request_times = Append(@, fc.tasks[t].now)], t)

\* scrape_board_page / scrape_article -> _make_request is called by a task
MakeRequest(t) ==
    /\ firecrawl.tasks[t].pc = "idle"
    /\ firecrawl' = _check_rate_limit(firecrawl, t)
    /\ UNCHANGED <<crawlVars, stateVars, redis_client, redis_keys, input, crawl_state, config, ret>>

\* asyncio.sleep(wait_time) returns
RateLimitWake(t) ==
    /\ firecrawl.tasks[t].pc = "sleep"
    /\ firecrawl.clock >= firecrawl.tasks[t].wake
    /\ firecrawl' = _check_rate_limit_resume(firecrawl, t)
    /\ UNCHANGED <<crawlVars, stateVars, redis_client, redis_keys, input, crawl_state, config, ret>>

\* a waiting task gets the semaphore after a release
SemaphoreAcquire(t) ==
    /\ firecrawl.tasks[t].pc = "acquire"
    /\ firecrawl.permits > 0
    /\ firecrawl' = Enter(firecrawl, t)
    /\ UNCHANGED <<crawlVars, stateVars, redis_client, redis_keys, input, crawl_state, config, ret>>

\* the request ends (answer or exception) and the semaphore is released
RequestDone(t) ==
    /\ firecrawl.tasks[t].pc = "in_flight"
    /\ firecrawl' = [firecrawl EXCEPT !.permits = @ + 1, !.tasks[t].pc = "done"]
    /\ UNCHANGED <<crawlVars, stateVars, redis_client, redis_keys, input, crawl_state, config, ret>>

\* a second passes
Tick ==
    /\ firecrawl.ticks < MaxTicks
    /\ firecrawl' = [firecrawl EXCEPT !.clock = @ + 1, !.ticks = @ + 1]
    /\ UNCHANGED <<crawlVars, stateVars, redis_client, redis_keys, input, crawl_state, config, ret>>

InitLimiter ==
    /\ InitCommon
    /\ CrawlIdle
    /\ row = NoRow
    /\ articles = NoArticles
    /\ crawl_state = NoRow
    /\ config = NULL
    /\ ret = NoRet
    /\ \E earlier \in EarlierRequests :
         firecrawl = [clock |-> Last(earlier), ticks |-> 0, _request_times |-> earlier,
                      permits |-> _concurrent_limit, sent |-> earlier,
                      tasks |-> [t \in Requesters |-> NoTask]]

NextLimiter ==
    \/ \E t \in Requesters : MakeRequest(t)
    \/ \E t \in Requesters : RateLimitWake(t)
    \/ \E t \in Requesters : SemaphoreAcquire(t)
    \/ \E t \in Requesters : RequestDone(t)
    \/ Tick

\* concurrent scrape calls on one FirecrawlService
SpecLimiter == InitLimiter /\ [][NextLimiter]_vars

\* ---------------------------------------------------------------- phase 2 over the client
\* the values of crawl.concurrent_limit a crawl service is built with
ConfiguredLimits == {concurrent_limit, MaxConcurrentLimit}

\* the links process_link holds the crawl service's semaphore for
Processing(fc) == {t \in Requesters : fc.tasks[t].pc \notin {"link_wait", "released"}}
\* the requests inside the client's semaphore
InFlight(fc) == {t \in Requesters : fc.tasks[t].pc = "in_flight"}

\* process_link: async with self._semaphore of the crawl service
LinkAcquire(t) ==
    /\ firecrawl.tasks[t].pc = "link_wait"
    /\ firecrawl.outer > 0
    /\ firecrawl' = [firecrawl EXCEPT !.outer = @ - 1, !.tasks[t].pc = "exists"]
    /\ UNCHANGED <<crawlVars, stateVars, redis_client, redis_keys, input, crawl_state, config, ret>>

\* process_link: the article exists, no request is made (skip or except branch)
LinkNoScrape(t) ==
    /\ firecrawl.tasks[t].pc = "exists"
    /\ firecrawl' = [firecrawl EXCEPT !.tasks[t].pc = "done"]
    /\ UNCHANGED <<crawlVars, stateVars, redis_client, redis_keys, input, crawl_state, config, ret>>

\* process_link: scrape_article_with_retry(url) -> scrape_article -> _make_request
LinkScrape(t) ==
    /\ firecrawl.tasks[t].pc = "exists"
    /\ firecrawl' = _check_rate_limit(firecrawl, t)
    /\ UNCHANGED <<crawlVars, stateVars, redis_client, redis_keys, input, crawl_state, config, ret>>

\* process_link returns and leaves async with: the permit goes back
LinkRelease(t) ==
    /\ firecrawl.tasks[t].pc = "done"
    /\ firecrawl' = [firecrawl EXCEPT !.outer = @ + 1, !.tasks[t].pc = "released"]
    /\ UNCHANGED <<crawlVars, stateVars, redis_client, redis_keys, input, crawl_state, config, ret>>

\* _phase2_crawl_article_content has made one process_link task per link
InitPhase2 ==
    /\ InitCommon
    /\ CrawlIdle
    /\ row = NoRow
    /\ articles = NoArticles
    /\ crawl_state = NoRow
    /\ config = NULL
    /\ ret = NoRet
    /\ \E limit \in ConfiguredLimits, links \in 1..MaxCallers :
         firecrawl = [clock |-> 0, ticks |-> 0, _request_times |-> <<>>,
                      permits |-> _concurrent_limit, sent |-> <<>>,
                      limit |-> limit, outer |-> limit,
                      tasks |-> [t \in Requesters |->
                                   [NoTask EXCEPT !.pc = IF t <= links THEN "link_wait"
                                                         ELSE "released"]]]

NextPhase2 ==
    \/ \E t \in Requesters : LinkAcquire(t)
    \/ \E t \in Requesters : LinkNoScrape(t)
    \/ \E t \in Requesters : LinkScrape(t)
    \/ \E t \in Requesters : SemaphoreAcquire(t)
    \/ \E t \in Requesters : RequestDone(t)
    \/ \E t \in Requesters : LinkRelease(t)

\* the process_link tasks of one phase 2, each scraping through the client
SpecPhase2 == InitPhase2 /\ [][NextPhase2]_vars

\* ---------------------------------------------------------------- cache flag
\* get_redis_state(board): None without contacting the cache when it is flagged
\* unavailable or there is no client; a failing get clears the flag
get_redis_state(available, client, cache, ok) ==
    IF ~available \/ ~client THEN [available |-> available, value |-> NoSnapshot]
    ELSE IF ok THEN [available |-> available, value |-> cache]
    ELSE [available |-> FALSE, value |-> NoSnapshot]

\* health_check: with a client, ping() decides _redis_available
health_check(available, client, ping_ok) ==
    IF client THEN ping_ok ELSE available

\* what a call answered, and whether it reached the cache server
Answer(value, contacted) == [value |-> value, contacted |-> contacted]

\* sync_state_to_redis(crawl_state) is called
SyncStateToRedis ==
    /\ \E st \in SnapshotStates, ok \in BOOLEAN :
         LET r == sync_state_to_redis(redis_available, redis_client, redis_state, st, ok)
         IN /\ redis_available' = r.available
            /\ redis_state' = r.cache
            /\ ret' = ServiceCall("sync_state_to_redis",
                                  Answer(r.value, redis_available /\ redis_client))
    /\ UNCHANGED <<crawlVars, json_state, redis_client, redis_keys, input, crawl_state, firecrawl, config>>

\* get_redis_state(board) is called
GetRedisState ==
    /\ \E ok \in BOOLEAN :
         LET r == get_redis_state(redis_available, redis_client, redis_state, ok)
         IN /\ redis_available' = r.available
            /\ ret' = ServiceCall("get_redis_state",
                                  Answer(r.value, redis_available /\ redis_client))
    /\ UNCHANGED <<crawlVars, redis_state, json_state, redis_client, redis_keys, input, crawl_state, firecrawl, config>>

\* health_check() is called
HealthCheck ==
    /\ \E ping_ok \in BOOLEAN :
         /\ redis_available' = health_check(redis_available, redis_client, ping_ok)
         /\ ret' = ServiceCall("health_check", Answer(redis_available', redis_client))
    /\ UNCHANGED <<crawlVars, redis_state, json_state, redis_client, redis_keys, input, crawl_state, firecrawl, config>>

NextCache ==
    \/ SimulateRedisFailure
    \/ RecoverRedisConnection
    \/ SyncStateToRedis
    \/ GetRedisState
    \/ HealthCheck

\* the cache operations of the State Service, in any order
SpecCache == InitState /\ [][NextCache]_vars

\* ---------------------------------------------------------------- error message
Messages == {<<"timeout">>, <<"UNAUTHORIZED", "api error">>}

\* CrawlState.set_error(error_message)
set_error(s, msg) == [s EXCEPT !.status = ERROR, !.error_message = msg]

\* CrawlState.clear_error: acts only on an object whose status is error
clear_error(s) ==
    IF s.status = ERROR THEN [s EXCEPT !.status = IDLE, !.error_message = NoMessage] ELSE s

\* CrawlState.set_completed: the status is written first, clear_error() is called last
set_completed(s) ==
    clear_error([s EXCEPT !.status = COMPLETED, !.last_crawl_time = "set"])

\* the update_crawl_state calls crawl_board and retry_failed_urls make: the
\* forced reset, crawling, the final status, and the error of the except block
CrawlUpdates ==
    {<<IDLE, NoMessage>>, <<CRAWLING, NoMessage>>, <<COMPLETED, NoMessage>>,
     <<ERROR, NoMessage>>}
    \cup {<<ERROR, m>> : m \in Messages}

\* CrawlState objects and rows whose message, if any, goes with status error
MessageStates ==
    {[DefaultRow EXCEPT !.status = st, !.error_message = m] :
        st \in {IDLE, CRAWLING, ERROR, COMPLETED}, m \in {NoMessage}}
    \cup {[DefaultRow EXCEPT !.status = ERROR, !.error_message = m] : m \in Messages}

ModelSetError ==
    /\ \E m \in Messages : crawl_state' = set_error(crawl_state, m)
    /\ ret' = [op |-> "set_error", before |-> crawl_state]
    /\ UNCHANGED <<crawlVars, stateVars, redis_client, redis_keys, input, firecrawl, config>>

ModelClearError ==
    /\ crawl_state' = clear_error(crawl_state)
    /\ ret' = [op |-> "clear_error", before |-> crawl_state]
    /\ UNCHANGED <<crawlVars, stateVars, redis_client, redis_keys, input, firecrawl, config>>

ModelSetCompleted ==
    /\ crawl_state' = set_completed(crawl_state)
    /\ ret' = [op |-> "set_completed", before |-> crawl_state]
    /\ UNCHANGED <<crawlVars, stateVars, redis_client, redis_keys, input, firecrawl, config>>

\* CrawlStateRepository.update_crawl_state(board, status, error_message=...)
RepoUpdateCrawlState ==
    /\ \E u \in CrawlUpdates : row' = update_crawl_state(row, u[1], None, u[2])
    /\ ret' = [op |-> "update_crawl_state", before |-> row]
    /\ UNCHANGED <<articles, listing, workload, runs, call, prev, stateVars,
                   redis_client, redis_keys, input, crawl_state, firecrawl, config>>

InitMessage ==
    /\ InitCommon
    /\ CrawlIdle
    /\ articles = NoArticles
    /\ row \in MessageStates
    /\ crawl_state \in MessageStates
    /\ firecrawl = NULL
    /\ config = NULL
    /\ ret = NoRet

NextMessage ==
    \/ ModelSetError
    \/ ModelClearError
    \/ ModelSetCompleted
    \/ RepoUpdateCrawlState

\* the status and error message of a CrawlState object and of the stored row
SpecMessage == InitMessage /\ [][NextMessage]_vars

\* ---------------------------------------------------------------- phase 2 with failing state writes
InitWrites ==
    /\ InitCommon
    /\ AuxIdle
    /\ articles \in [URLs -> {0, 1}]
    /\ listing \in Listings
    /\ workload = [pages |-> {MaxPages}, incremental |-> {TRUE}, force |-> BOOLEAN,
                   redis_ok |-> {TRUE}, json_ok |-> {TRUE}, url_write_ok |-> BOOLEAN,
                   state_write_ok |-> BOOLEAN]
    /\ row \in {NoRow} \cup InterruptedRows
    /\ runs = [c \in Calls |-> IF c = 1 THEN 1 ELSE 0]
    /\ call = [c \in Calls |-> IdleCall]

\* one crawl_board call during which add_processed_url and add_failed_url may fail
SpecWrites == InitWrites /\ [][Next]_vars

\* ---------------------------------------------------------------- properties
\* positions of crawl_board after the guard has let the call through, up to its return
Running == {"set_crawling", "p1_scrape", "p1_progress", "p2",
            "fin_update", "fin_reset", "fin_get", "fin_sync"}
Handling == {"exc_update", "exc_incr", "raised"}
BeforeGuard == {"idle", "init", "init_create", "init_force_update", "init_force_reset",
                "get_state"}
AfterPhase2 == {"fin_update", "fin_reset", "fin_get", "fin_sync", "returned"}

NoArticleScraped(cl) == \A u \in URLs : cl.article_scrapes[u] = 0

\* C1: two crawl_board calls on the same board, both with force=false, are never
\* both past the "already crawling" guard at the same time.
C1_OnlyOnePassesGuard ==
    ~(\E c1, c2 \in Calls :
        /\ c1 # c2
        /\ ~call[c1].force /\ ~call[c2].force
        /\ call[c1].pc \in Running /\ call[c2].pc \in Running)

\* C2: a call made with force=false while the stored status is crawling raises the
\* "already crawling" error and scrapes no listing page and no article; a call made
\* with force=true on such a board is not refused.
C2_GuardRefusesCrawling ==
    \A c \in Calls :
        (call[c].pc \notin BeforeGuard /\ call[c].start_row.exists
            /\ call[c].start_row.status = CRAWLING)
        => IF call[c].force
           THEN call[c].exc # AlreadyCrawling
           ELSE /\ call[c].exc = AlreadyCrawling
                /\ call[c].pc \in Handling
                /\ call[c].page_scrapes = 0
                /\ NoArticleScraped(call[c])
                /\ call[c].tasks = <<>>

C2_Witness ==
    \E c \in Calls :
        /\ call[c].pc = "raised" /\ ~call[c].force
        /\ call[c].start_row.exists /\ call[c].start_row.status = CRAWLING
        /\ call[c].exc = AlreadyCrawling

ProcessedAtStart(cl) ==
    IF cl.start_row.exists THEN Range(cl.start_row.processed_urls) ELSE {}

SecondOfTwo(c) ==
    /\ call[c].pc = "returned"
    /\ prev[c].outcome = "returned"

\* C4: two incremental crawl_board calls with the same arguments, one right after
\* the other over the same listing: the second reports no more new articles than
\* the first and a non-zero articles_skipped (the urls the first one processed).
C4_IncrementalIdempotence ==
    \A c \in Calls :
        (/\ SecondOfTwo(c)
         /\ call[c].incremental /\ prev[c].incremental
         /\ ~call[c].force /\ ~prev[c].force
         /\ call[c].pages = prev[c].pages
         /\ prev[c].result.articles_new > 0)
        => /\ call[c].result.articles_new <= prev[c].result.articles_new
           /\ call[c].result.articles_skipped > 0

\* C5: a forced call on a board whose urls an earlier call processed ignores the
\* processed state: no discovered link is dropped for being processed already, and
\* the summary reports articles_skipped = 0.
C5_ForceIgnoresProcessed ==
    \A c \in Calls :
        (/\ call[c].pc = "returned"
         /\ call[c].force
         /\ ProcessedAtStart(call[c]) # {})
        => /\ call[c].all_links = call[c].discovered
           /\ call[c].result.articles_skipped = 0

Outcomes == {"created", "updated", "skipped", "failed"}

\* C6: phase 2 isolates the failure of a link: whatever links fail at the existence
\* check, the fetch, the parse or the store, phase 2 returns normally with every
\* link taken to an outcome of its own, and the url of each failed link is in the
\* board's failed_urls.
C6_Phase2Isolation ==
    \A c \in Calls :
        /\ call[c].pc \in Handling => call[c].tasks = <<>>
        /\ call[c].pc \in AfterPhase2 =>
             /\ Len(call[c].tasks) = Len(call[c].all_links)
             /\ \A i \in 1..Len(call[c].tasks) :
                  /\ call[c].tasks[i].pc = "done"
                  /\ call[c].tasks[i].outcome \in Outcomes
                  /\ call[c].tasks[i].outcome = "failed"
                       => InSeq(call[c].tasks[i].url, row.failed_urls)
                  /\ call[c].tasks[i].outcome = "created"
                       => /\ call[c].tasks[i].url \in Stored(articles)
                          /\ InSeq(call[c].tasks[i].url, row.processed_urls)

C6_Witness ==
    \E c \in Calls :
        /\ call[c].pc = "returned"
        /\ \E i, j \in 1..Len(call[c].tasks) :
             /\ call[c].tasks[i].outcome = "failed"
             /\ call[c].tasks[j].outcome = "created"

Bumped(n, max) == IF n < max THEN n + 1 ELSE n

AtCeiling(s) == s.retry_count = s.max_retries

\* C11 as claimed: increment-retry-count on a CrawlState whose retry_count equals
\* max_retries leaves retry_count unchanged and does not raise, for the CrawlState
\* helper and for the repository operation alike.
C11_CeilingNeverRaises ==
    /\ (ret.op = "CrawlState.increment_retry_count" /\ AtCeiling(ret.before))
         => crawl_state.retry_count = ret.before.retry_count /\ ret.exc = NoExc
    /\ (ret.op = "CrawlStateRepository.increment_retry_count" /\ AtCeiling(ret.before))
         => row.retry_count = ret.before.retry_count /\ ret.exc = NoExc

\* C11 (amended): at retry_count = max_retries both leave retry_count unchanged;
\* the repository operation does not raise, the CrawlState helper raises ValueError.
\* Below the ceiling both add one and neither raises.
C11_RetryCeiling ==
    /\ ret.op = "CrawlState.increment_retry_count" =>
         IF AtCeiling(ret.before)
         THEN crawl_state = ret.before /\ ret.exc.type = "ValueError"
         ELSE crawl_state.retry_count = ret.before.retry_count + 1 /\ ret.exc = NoExc
    /\ ret.op = "CrawlStateRepository.increment_retry_count" =>
         /\ ret.exc = NoExc
         /\ IF AtCeiling(ret.before)
            THEN row = ret.before
            ELSE row.retry_count = ret.before.retry_count + 1

C11_Witness ==
    /\ ret.op = "CrawlState.increment_retry_count"
    /\ AtCeiling(ret.before)
    /\ ret.before.max_retries = DefaultMaxRetries
    /\ ret.exc.type = "ValueError"
    /\ crawl_state.retry_count = DefaultMaxRetries

\* urls of a batch that were neither stored before the call nor earlier in the batch
RECURSIVE NewUrls(_, _)
NewUrls(batch, seen) ==
    IF batch = <<>> THEN <<>>
    ELSE IF Head(batch) \in seen THEN NewUrls(Tail(batch), seen)
         ELSE <<Head(batch)>> \o NewUrls(Tail(batch), seen \cup {Head(batch)})

\* C12: after any sequence of article inserts the store holds at most one article
\* row per url, and an insert of a stored url is reported as an integrity conflict
\* (insert_article) or as a skipped row (batch_insert_articles: the call returns
\* the ids of the other articles, which are stored), never by a crash.
C12_UrlUniqueness ==
    /\ \A u \in URLs : articles[u] <= 1
    /\ (ret.op = "insert_article" /\ ret.args[1] \in Stored(ret.before)
          /\ ret.exc.type # "PostgresError")
         => ret.exc = IntegrityError /\ articles = ret.before
    /\ (ret.op = "batch_insert_articles" /\ ret.exc.type # "PostgresError")
         => /\ ret.exc = NoExc
            /\ ret.ids = NewUrls(ret.args, Stored(ret.before))
            /\ Stored(articles) = Stored(ret.before) \cup Range(ret.args)

\* the two snapshots report the same board, status and number of processed urls
Parity(cache, file) ==
    /\ cache.board # NULL /\ file.board # NULL
    /\ cache.board = file.board
    /\ cache.status = file.status
    /\ Len(cache.processed_urls) = Len(file.processed_urls)

LastCalls(ops) ==
    /\ ret # NoRet
    /\ Len(ret.trail) >= Len(ops)
    /\ \A i \in 1..Len(ops) : ret.trail[Len(ret.trail) - Len(ops) + i][1] = ops[i]

\* the cache entry carries every field of the JSON snapshot but saved_at
CacheEqualsJson ==
    /\ redis_state.board # NULL /\ json_state.board # NULL
    /\ \A f \in DOMAIN redis_state : redis_state[f] = json_state[f]

\* C14 as claimed: after simulate_redis_failure followed by
\* recover_state_from_json(board), sync_redis_from_json(board) succeeds and the
\* cache snapshot of the board equals its JSON snapshot.
C14_SyncAfterFailureRestoresParity ==
    (/\ LastCalls(<<"simulate_redis_failure", "recover_state_from_json",
                    "sync_redis_from_json">>)
     /\ json_state.board # NULL)
    => ret.value = TRUE /\ CacheEqualsJson

\* C14 (amended): after simulate_redis_failure, sync_redis_from_json(board)
\* returns false and leaves the cache entry as it was, whether or not
\* recover_state_from_json was called, until recover_redis_connection has
\* succeeded; called right after a successful recover_redis_connection on a board
\* with a JSON snapshot it succeeds unless the cache write fails, and whenever it
\* succeeds the cache snapshot equals the JSON snapshot in every CrawlState field
\* (the JSON snapshot has saved_at in addition).
C14_SyncNeedsReconnection ==
    ret.op = "sync_redis_from_json" =>
        /\ ret.value \in BOOLEAN
        /\ ret.value => /\ CacheEqualsJson
                        /\ ret.before.available /\ ret.before.client
                        /\ redis_available
        /\ ~ret.value => redis_state = ret.before.cache
        /\ (~ret.before.available \/ ~ret.before.client \/ json_state.board = NULL)
             => ~ret.value
        /\ (LastCalls(<<"simulate_redis_failure", "sync_redis_from_json">>)
             \/ LastCalls(<<"simulate_redis_failure", "recover_state_from_json",
                            "sync_redis_from_json">>))
             => ~ret.value
        /\ (~ret.value /\ json_state.board # NULL
             /\ Len(ret.trail) >= 2 /\ ret.trail[Len(ret.trail) - 1]
                   = <<"recover_redis_connection", TRUE>>)
             => ~redis_available

C14_Witness ==
    /\ LastCalls(<<"simulate_redis_failure", "recover_redis_connection",
                   "sync_redis_from_json">>)
    /\ ret.value = TRUE
    /\ ret.before.cache # redis_state
    /\ CacheEqualsJson

\* C15: after a crawl_board call that raises, the relational CrawlState, the cache
\* snapshot and the JSON snapshot of the board all report status error and the
\* same error_message.
C15_ErrorStateInAllLayers ==
    \A c \in Calls :
        call[c].pc = "raised" =>
            /\ row.exists /\ row.status = ERROR
            /\ redis_state.board # NULL /\ redis_state.status = ERROR
            /\ json_state.board # NULL /\ json_state.status = ERROR
            /\ redis_state.error_message = row.error_message
            /\ json_state.error_message = row.error_message

\* the error code the last answer stands for
AnswerCode(outcome) ==
    CASE outcome[1] = "timeout" -> "TIMEOUT"
      [] outcome[1] = "connection" -> "CONNECTION_FAILED"
      [] outcome = <<"http", "401">> -> "UNAUTHORIZED"
      [] outcome = <<"http", "429">> -> "RATE_LIMITED"
      [] outcome = <<"http", "503">> -> "SERVICE_UNAVAILABLE"
      [] outcome[1] = "http" -> "HTTP_ERROR"
      [] outcome[1] = "other" -> "UNKNOWN"
      [] outcome[1] = "api" -> outcome[2]
      [] OTHER -> NULL

\* C16: scrape_article_with_retry does not retry non-transient errors: when an
\* attempt fails with code UNAUTHORIZED, INVALID_URL, CONTENT_NOT_FOUND or
\* QUOTA_EXCEEDED (an HTTP 401 answer, say) no further attempt is made and that
\* error is raised to the caller with its code.
C16_NoRetryOfNonTransient ==
    (firecrawl.pc \in {"raised", "attempt"}
        /\ AnswerCode(firecrawl.last_outcome) \in NoRetryCodes)
    => /\ firecrawl.pc = "raised"
       /\ firecrawl.requests = 1
       /\ firecrawl.exc.type = "FirecrawlError"
       /\ firecrawl.exc.code = AnswerCode(firecrawl.last_outcome)

\* C17: every failure of a scrape request surfaces as a FirecrawlError whose code
\* follows the mapping: timeout -> TIMEOUT, connection failure ->
\* CONNECTION_FAILED, HTTP 401 -> UNAUTHORIZED, 429 -> RATE_LIMITED, 503 ->
\* SERVICE_UNAVAILABLE, any other non-200 status -> HTTP_ERROR, and only other
\* unexpected exceptions -> UNKNOWN.
C17_ErrorCodeMapping ==
    \A outcome \in HttpOutcomes \ {Answered} :
        firecrawl.last_outcome = outcome
        => /\ _make_request(outcome).type = "FirecrawlError"
           /\ _make_request(outcome).code = AnswerCode(outcome)

\* the urls of the links that ended as failed, in the order of the list
RECURSIVE FailedAgain(_)
FailedAgain(tasks) ==
    IF tasks = <<>> THEN <<>>
    ELSE IF Head(tasks).outcome = "failed"
         THEN <<Head(tasks).url>> \o FailedAgain(Tail(tasks))
         ELSE FailedAgain(Tail(tasks))

\* C18: retry_failed_urls(board) re-runs phase 2 on exactly the urls in the
\* board's stored failed_urls at call time (urls_retried is their count) and
\* clears that list first, so that after it returns the stored failed_urls
\* contains only urls that failed again during this retry.
C18_RetryClearsFailedUrls ==
    \A c \in Calls :
        (call[c].op = "retry_failed_urls" /\ call[c].pc = "returned"
            /\ call[c].result.status = "success")
        => /\ call[c].result.urls_retried = Len(call[c].start_row.failed_urls)
           /\ [i \in 1..Len(call[c].tasks) |-> call[c].tasks[i].url]
                = call[c].start_row.failed_urls
           /\ Range(row.failed_urls) = Range(FailedAgain(call[c].tasks))
           /\ Len(row.failed_urls) = Len(FailedAgain(call[c].tasks))

\* the value of crawl.rate_limit that the precedence defaults < file < database
\* < environment selects from the sources of a load_config call
Selected(cfg, args) ==
    IF args.use_environment /\ cfg.env["PTT_CRAWLER_RATE_LIMIT"] # Absent
    THEN cfg.env["PTT_CRAWLER_RATE_LIMIT"]
    ELSE IF args.use_database THEN get_all_configs(cfg.table)["crawl.rate_limit"]
    ELSE IF cfg.file # Absent THEN str(cfg.file)
    ELSE IF args.use_defaults THEN StrValue(60)
    ELSE Absent

\* C19: load_config merges its sources with precedence defaults < file <
\* database < environment and returns the merged configuration: with
\* crawl.rate_limit 60 in the defaults, 90 in the file and 200 in the environment
\* it returns 200, without the environment variable 90, without the file 60.
C19_ConfigPrecedence ==
    (/\ ret.op = "load_config"
     /\ ret.args.use_defaults
     /\ Selected(config, ret.args).n \in 1..1000)
    => /\ ret.exc = NoExc
       /\ ret.value["crawl.rate_limit"] = Selected(config, ret.args)

\* C20: setting crawl.rate_limit to -10, 0 or 1001 through set_config fails with
\* a validation error and leaves the configs table as it was, while setting it
\* to 60 passes validation and stores "60".
C20_RangeValidation ==
    ret.op = "set_config"
    => IF ret.args.n \in {-10, 0, 1001}
       THEN ret.exc.type = "ValueError" /\ config.table = ret.before
       ELSE ret.args.n = 60 => (ret.exc = NoExc /\ config.table = StrValue(60))

\* C21: clean --cache deletes only cache keys that are not crawl-state keys:
\* the crawl_state:<board> key the State Service wrote is still there with its
\* value afterwards, and every key outside the reserved state prefix is removed.
C21_CleanKeepsStateKeys ==
    (ret.op \in {"clean", "_clean_redis_cache"} /\ ret.redis_ok)
    => /\ redis_state = ret.before.state
       /\ \A k \in redis_keys : startswith_state_prefix(k)

\* C22: get_success_rate returns processed / (processed + failed) as a fraction:
\* 0.8 for 4 processed urls and 1 failed url, 1.0 when both lists are empty.
C22_SuccessRateFraction ==
    ret.op = "get_success_rate"
    => LET p == Len(ret.before.processed_urls)
           f == Len(ret.before.failed_urls)
       IN  /\ (p + f > 0) => ret.value = Thousandths(p, p + f)
           /\ (p + f = 0) => ret.value = 1000
           /\ (p = 4 /\ f = 1) => ret.value = 800

\* C23: the exit code of the health-check script is a function of the check
\* results: 0 when every check is healthy, 1 when at least one is a warning and
\* none is critical, 2 when at least one is critical.
C23_ExitCodeOfResults ==
    ret.op = "health_check"
    => LET checks == all_checks(input.detailed)
       IN  ret.exit_code =
               IF \E c \in checks : input.results[c] = "critical" THEN 2
               ELSE IF \E c \in checks : input.results[c] = "warning" THEN 1
               ELSE 0

\* C24: the category of a title is the text of its [bracket] label, also when
\* the label follows a "Re: " prefix, and absent when the title has no bracket;
\* the Article method and the parser's function agree on every title.
C24_CategoryOfTitle ==
    ret.op = "extract_category"
    => /\ ret.article = ret.parser
       /\ (Len(input) >= 4 /\ SubSeq(input, 1, 4) = <<"Re: ", "[", "a", "]">>)
            => ret.article = Category(<<"a">>)
       /\ (Len(input) >= 3 /\ SubSeq(input, 1, 3) = <<"[", "a", "]">>)
            => ret.article = Category(<<"a">>)
       /\ (\A i \in 1..Len(input) : input[i] \notin {"[", "]"}) => ret.article = NoCategory

\* the five transitions of the status a crawl may make
StatusEdges ==
    {<<IDLE, CRAWLING>>, <<CRAWLING, COMPLETED>>, <<CRAWLING, ERROR>>,
     <<ERROR, CRAWLING>>, <<COMPLETED, CRAWLING>>}

ForcedReset ==
    \E c \in Calls : /\ call[c].force
                     /\ call[c].pc = "init_force_update"
                     /\ call'[c].pc = "init_force_reset"

C26_RetryOnlyBelowCeiling ==
    [][\A c \in Calls :
          (/\ call[c].pc = "set_crawling"
           /\ call'[c].pc # "set_crawling"
           /\ ~call[c].force
           /\ row.exists /\ row.status = ERROR
           /\ row'.status = CRAWLING)
          => can_retry(row)]_vars

\* C27: in every state reached by crawl_board, retry_failed_urls,
\* increment_retry_count and reset_retry_count in any order, the board's row has
\* 0 <= retry_count <= max_retries, and a crawl that ends with status completed
\* leaves retry_count = 0.
C27_RetryCountBounded ==
    row.exists
    => /\ 0 <= row.retry_count
       /\ row.retry_count <= row.max_retries
       /\ \A c \in Calls :
            (call[c].pc \in {"fin_get", "fin_sync"} /\ FinalStatus(call[c].counts) = COMPLETED)
            => row.retry_count = 0

\* a crawl of a board that had used up its retries has ended completed, and
\* the counter is back at zero
C27_Witness ==
    \E c \in Calls :
        /\ call[c].pc = "fin_sync"
        /\ call[c].start_row.exists
        /\ call[c].start_row.retry_count = call[c].start_row.max_retries
        /\ row.status = COMPLETED
        /\ row.retry_count = 0

\* the requests sent in the window of RateWindow seconds that ends at second t
SentInWindow(t) ==
    Cardinality({i \in 1..Len(firecrawl.sent) :
                   firecrawl.sent[i] <= t /\ t - firecrawl.sent[i] < RateWindow})

\* C28: for every interleaving of concurrent scrape calls on one
\* FirecrawlService at most 100 requests are sent within any 60-second window;
\* callers that arrive when the window is full wait until the limit holds again.
C28_RateLimitHolds ==
    \A i \in 1..Len(firecrawl.sent) :
        SentInWindow(firecrawl.sent[i]) <= _max_requests_per_minute

\* C29: at every moment of phase 2 at most crawl.concurrent_limit links are
\* being processed at the same time and at most 5 scrape requests are in flight
\* at the scraping client, whatever the number of links.
C29_Phase2Bounded ==
    /\ Cardinality(Processing(firecrawl)) <= firecrawl.limit
    /\ Cardinality(InFlight(firecrawl)) <= _concurrent_limit

\* as many links are being processed as crawl.concurrent_limit allows, five of
\* them have a request in flight and one more waits for the client's semaphore
C29_Witness ==
    /\ Cardinality(Processing(firecrawl)) = firecrawl.limit
    /\ Cardinality(InFlight(firecrawl)) = _concurrent_limit
    /\ \E t \in Requesters : firecrawl.tasks[t].pc = "acquire"

\* failures after which scrape_article_with_retry is to try again
TransientOutcomes ==
    {<<"timeout", NULL>>, <<"connection", NULL>>, <<"api", "TIMEOUT">>}
    \cup {<<"http", status>> : status \in {"429", "503", "500"}}

\* C30: scrape_article_with_retry ends after at most max_retries + 1 attempts;
\* it returns the first successful response without a further attempt, and when
\* every attempt fails with a transient error it makes exactly max_retries + 1
\* attempts, waits at least 2^k seconds after failed attempt k, and raises the
\* last error.
C30_RetryLoop ==
    /\ firecrawl.requests <= firecrawl.max_retries + 1
    /\ firecrawl.pc = "returned"
         => /\ firecrawl.last_outcome = Answered
            /\ firecrawl.requests = Len(firecrawl.failures) + 1
    /\ (/\ firecrawl.pc = "raised"
        /\ \A i \in 1..Len(firecrawl.failures) : firecrawl.failures[i] \in TransientOutcomes)
         => /\ firecrawl.requests = firecrawl.max_retries + 1
            /\ Len(firecrawl.waits) = firecrawl.max_retries
            /\ \A k \in 0..(firecrawl.max_retries - 1) : firecrawl.waits[k + 1] >= 2 ^ k
            /\ firecrawl.exc.type = "FirecrawlError"

\* C31: once the cache is flagged unavailable, sync_state_to_redis returns false
\* and get_redis_state returns absent without contacting the cache, and the flag
\* stays off until recover_redis_connection / initialize succeeds; no other
\* operation turns it back on.
C31_UnavailableUntilRecovery ==
    [][/\ (ret'.op = "sync_state_to_redis" /\ ~ret'.before.available)
            => ret'.value = Answer(FALSE, FALSE)
       /\ (ret'.op = "get_redis_state" /\ ~ret'.before.available)
            => ret'.value = Answer(NoSnapshot, FALSE)
       /\ (~redis_available /\ redis_available')
            => ret'.op = "recover_redis_connection"]_vars

NoDuplicates(s) == \A i, j \in 1..Len(s) : s[i] = s[j] => i = j

\* C32: after any sequence of crawl_board runs and retry_failed_urls, and for any
\* completion order of the phase-2 tasks, the stored processed_urls and
\* failed_urls of the board each hold no url more than once.
C32_UrlListsAreSets ==
    row.exists => NoDuplicates(row.processed_urls) /\ NoDuplicates(row.failed_urls)

\* C33: batch_insert_articles runs in one transaction: an article whose url is
\* stored is skipped and the others of the batch are inserted, any other error
\* leaves none of the batch stored, and the returned list holds exactly the ids
\* of the rows inserted.
C33_BatchInsertOutcome ==
    ret.op = "batch_insert_articles"
    => /\ ret.exc.type = "PostgresError" => articles = ret.before
       /\ ret.exc.type # "PostgresError"
            => /\ ret.exc = NoExc
               /\ Stored(articles) = Stored(ret.before) \cup Range(ret.args)
       /\ ret.exc = NoExc => Range(ret.ids) = Stored(articles) \ Stored(ret.before)

\* C34: error_message is set only while status = error: in every state reached
\* through set_error, clear_error and set_completed and through the
\* update_crawl_state calls of crawl_board and retry_failed_urls, a non-empty
\* error_message implies status = error.
C34_MessageOnlyWithError ==
    /\ crawl_state.error_message # NoMessage => crawl_state.status = ERROR
    /\ row.error_message # NoMessage => row.status = ERROR

\* C35: a crawl_board call refused by the "already crawling" guard leaves the
\* stored CrawlState of the board unchanged: status, error_message and
\* retry_count are after the refusal what the guard read.
C35_RefusalLeavesStateAlone ==
    \A c \in Calls :
        (call[c].pc = "raised" /\ call[c].exc = AlreadyCrawling)
        => /\ row.status = call[c].crawl_state.status
           /\ row.error_message = call[c].crawl_state.error_message
           /\ row.retry_count = call[c].crawl_state.retry_count

\* C36: whenever crawl_board returns a summary with status "success" the stored
\* status of the board is completed; a run whose finalization stores error does
\* not return a success summary.
C36_SuccessMeansCompleted ==
    \A c \in Calls :
        (call[c].pc = "returned" /\ call[c].op = "crawl_board"
            /\ call[c].result.status = "success")
        => /\ row.status = COMPLETED
           /\ call[c].final_state.status = COMPLETED

\* C37: for every list of links given to phase 2, articles_created +
\* articles_updated + articles_skipped + articles_failed equals the number of
\* links: each link is counted in exactly one counter, whichever step fails.
C37_CountsAddUp ==
    \A c \in Calls :
        call[c].pc = "fin_update"
        => call[c].counts.created + call[c].counts.updated
             + call[c].counts.skipped + call[c].counts.failed = Len(call[c].tasks)

\* C38: within one crawl_board run each distinct article URL is fetched at most
\* once: scrape_article_with_retry is invoked at most once per URL even when the
\* same URL is discovered more than once.
C38_FetchedAtMostOnce ==
    \A c \in Calls :
        call[c].op = "crawl_board"
        => \A u \in URLs : call[c].article_scrapes[u] <= 1

\* the call read the board's state and was not refused by the "already crawling" guard
PassedGuard(cl) ==
    cl.crawl_state.exists /\ (cl.force \/ cl.crawl_state.status # CRAWLING)

\* C39: every crawl_board call that passes the guard eventually ends, and when
\* it returns or raises the board's stored status is completed or error, never
\* still crawling, provided every scrape, parse and storage call eventually
\* returns or raises. Stated for the end of the call: a call that passed the
\* guard and has returned or raised has left the status completed or error.
C39_EndsCompletedOrError ==
    \A c \in Calls :
        (/\ call[c].op = "crawl_board"
         /\ call[c].pc \in {"returned", "raised"}
         /\ PassedGuard(call[c]))
        => row.status \in {COMPLETED, ERROR}
====
